---- MODULE Spec2Model ----
(***************************************************************************)
(* A model of zepter: the feature DAG (src/src/dag.rs), the manifest       *)
(* editor (src/src/autofix.rs) and the lints and fixers built on them      *)
(* (src/src/cmd).                                                          *)
(*                                                                         *)
(* Strings are sequences of one-character strings, ordered as Rust orders  *)
(* str (bytewise, lexicographically).                                      *)
(***************************************************************************)
EXTENDS Integers, Sequences, FiniteSets, TLC

VARIABLES
  \* ---- Dag<CrateAndFeature> and one reachability query on it (dag.rs)
  edges,      \* Dag::edges: BTreeMap<T, BTreeSet<T>>, a function lhs node -> set
  dagPc,      \* "build" | "search" | "done"
  query,      \* the query in progress: [kind, from, to, pred]
  stack,      \* the DFS stack of (node, path) pairs
  visited,    \* the DFS visited set
  result,     \* Option<Path>: [some |-> BOOLEAN, path |-> sequence of nodes]
  iters,      \* loop iterations (successful pops) of the query so far
  expanded    \* the nodes whose neighbours were pushed, in order

dagVars == <<edges, dagPc, query, stack, visited, result, iters, expanded>>

VARIABLES
  \* ---- one AutoFixer and the last operation applied to it (autofix.rs)
  doc,        \* AutoFixer::doc: [features |-> BOOLEAN, feats |-> name -> Array]
  pre,        \* the document before the last operation
  op          \* the last operation: [name, feature, v, result]

fixVars == <<doc, pre, op>>

VARIABLES
  \* ---- runs of the commands that lint and fix one workspace (cmd/)
  cfg,        \* the command line and what cargo metadata reports besides features
  disk,       \* the manifest files: package name -> document
  meta,       \* the features cargo metadata reported: package -> feature -> entries
  lintPc,     \* "start" | "run" | "returned" (Ok) | "failed" (Err) | "exited"
  pending,    \* the requested features not yet run, in order
  runNo,      \* the number of the run
  detected,   \* what the last run_feature recorded: [feature, propagate_missing,
              \* feature_missing]
  reported,   \* every diagnostic printed so far: [run, kind, pkg, feature, dep]
  written,    \* every manifest saved so far: [run, cmd, path]
  exitCode    \* the code of std::process::exit, 0 after Ok, -1 while unknown

lintVars ==
  <<cfg, disk, meta, lintPc, pending, runNo, detected, reported, written, exitCode>>

VARIABLES
  \* ---- one run of lift-to-workspace (cmd/transpose/lift_to_workspace.rs)
  liftCfg,    \* the command line and what cargo metadata reports
  files,      \* the manifest files: path -> manifest
  fixers,     \* LiftToWorkspaceCmd::run's fixers: key -> [path, raw, doc]
  todo,       \* the dependencies not yet processed, in order
  liftPc,     \* "idle" | "scan" | "apply" | "returned" (Ok) | "failed" (Err)
  saves       \* the calls of std::fs::write so far, in order: [path, doc]

liftVars == <<liftCfg, files, fixers, todo, liftPc, saves>>

VARIABLES
  \* ---- one call of WorkflowFile::into_resolved (config/workflow.rs)
  wfInput,    \* WorkflowFile::workflows as parsed: name -> sequence of steps
  wfFile,     \* self.workflows now
  wfPc        \* "idle" | "resolving" | "returned" (Ok) | "failed" (Err) | "panicked"

wfVars == <<wfInput, wfFile, wfPc>>

vars == <<dagVars, fixVars, lintVars, liftVars, wfVars>>

(***************************************************************************)
(* Strings                                                                 *)
(***************************************************************************)

\* The byte of a character (the characters the model uses).
Code(c) ==
  CASE c = "\t" -> 9
    [] c = "\n" -> 10
    [] c = " " -> 32
    [] c = "\"" -> 34
    [] c = "#" -> 35
    [] c = "$" -> 36
    [] c = "+" -> 43
    [] c = "," -> 44
    [] c = "-" -> 45
    [] c = "." -> 46
    [] c = "/" -> 47
    [] c = "0" -> 48
    [] c = "1" -> 49
    [] c = "2" -> 50
    [] c = "3" -> 51
    [] c = "4" -> 52
    [] c = "5" -> 53
    [] c = "6" -> 54
    [] c = "7" -> 55
    [] c = "8" -> 56
    [] c = "9" -> 57
    [] c = ":" -> 58
    [] c = "?" -> 63
    [] c = "_" -> 95
    [] c = "a" -> 97
    [] c = "b" -> 98
    [] c = "c" -> 99
    [] c = "d" -> 100
    [] c = "e" -> 101
    [] c = "f" -> 102
    [] c = "g" -> 103
    [] c = "i" -> 105
    [] c = "l" -> 108
    [] c = "n" -> 110
    [] c = "o" -> 111
    [] c = "p" -> 112
    [] c = "r" -> 114
    [] c = "t" -> 116
    [] c = "u" -> 117
    [] c = "x" -> 120
    [] c = "y" -> 121

\* str's Ord: s < t, bytewise lexicographic, a proper prefix being smaller.
RECURSIVE StrLess(_, _)
StrLess(s, t) ==
  IF t = <<>> THEN FALSE
  ELSE IF s = <<>> THEN TRUE
  ELSE IF Code(Head(s)) # Code(Head(t)) THEN Code(Head(s)) < Code(Head(t))
  ELSE StrLess(Tail(s), Tail(t))

\* The derived Ord of CrateAndFeature(String, String): by crate, then feature.
CrateAndFeatureLess(a, b) ==
  \/ StrLess(a[1], b[1])
  \/ a[1] = b[1] /\ StrLess(a[2], b[2])

\* The iteration order of a BTreeSet<CrateAndFeature>: ascending.
RECURSIVE BTreeSetIter(_)
BTreeSetIter(S) ==
  IF S = {} THEN <<>>
  ELSE LET m == CHOOSE m \in S : \A o \in S \ {m} : CrateAndFeatureLess(m, o)
       IN  <<m>> \o BTreeSetIter(S \ {m})

(***************************************************************************)
(* Dag (src/src/dag.rs)                                                    *)
(***************************************************************************)

NumNodes == 3
MaxEdges == 3

NodeUniverse ==
  << <<<<"a">>, <<"f">>>>, <<<<"a">>, <<"g">>>>, <<<<"b">>, <<"f">>>>,
     <<<<"b">>, <<"g">>>>, <<<<"c">>, <<"f">>>> >>

Nodes == {NodeUniverse[i] : i \in 1..NumNodes}

None == [some |-> FALSE, path |-> <<>>]
Some(p) == [some |-> TRUE, path |-> p]

\* Dag::new
DagNew == <<>>

\* edges.entry(k).or_default(): the map with k present.
EntryOrDefault(e, k) ==
  IF k \in DOMAIN e THEN e ELSE [n \in DOMAIN e \cup {k} |-> IF n = k THEN {} ELSE e[n]]

\* A plausible slip: the edge is entered in both directions.
AddEdgeBothWays(e, from, to) ==
  LET d == EntryOrDefault(EntryOrDefault(e, from), to)
  IN  [d EXCEPT ![from] = @ \cup {to}, ![to] = @ \cup {from}]

\* Dag::add_edge
add_edge(e, from, to) ==
  LET d == EntryOrDefault(e, from)
  IN  [d EXCEPT ![from] = @ \cup {to}]

\* Dag::add_node
add_node(e, node) == EntryOrDefault(e, node)

\* Dag::lhs_contains
lhs_contains(e, from) == from \in DOMAIN e

\* Dag::num_edges
RECURSIVE SumCard(_, _)
SumCard(e, ks) ==
  IF ks = {} THEN 0
  ELSE LET k == CHOOSE k \in ks : TRUE
       IN  Cardinality(e[k]) + SumCard(e, ks \ {k})

num_edges(e) == SumCard(e, DOMAIN e)

\* Dag::num_nodes
num_nodes(e) == Cardinality(DOMAIN e)

\* self.edges.get(node): the neighbours, none when node is no lhs node.
EdgesGet(e, node) == IF node \in DOMAIN e THEN e[node] ELSE {}

\* Path::try_from(Vec): an empty vector is no path.
PathTryFrom(v) == IF v = <<>> THEN None ELSE Some(v)

\* A plausible slip: path.pop() is forgotten, a neighbour stays on the path
\* of those pushed after it.
RECURSIVE PushWithoutPop(_, _, _)
PushWithoutPop(stk, path, ns) ==
  IF ns = <<>> THEN stk
  ELSE PushWithoutPop(
         Append(stk, [node |-> Head(ns), path |-> Append(path, Head(ns))]),
         Append(path, Head(ns)), Tail(ns))

\* for neighbor in neighbors.iter() { path.push(neighbor);
\*   stack.push((neighbor, path.clone())); path.pop(); }
RECURSIVE PushNeighborsSeq(_, _, _)
PushNeighborsSeq(stk, path, ns) ==
  IF ns = <<>> THEN stk
  ELSE PushNeighborsSeq(
         Append(stk, [node |-> Head(ns), path |-> Append(path, Head(ns))]),
         path, Tail(ns))

\* A plausible slip: only the first neighbour is pushed.
PushFirstNeighbor(stk, path, ns) ==
  IF ns = {} THEN stk
  ELSE LET n == Head(BTreeSetIter(ns))
       IN  Append(stk, [node |-> n, path |-> Append(path, n)])

PushNeighbors(stk, path, ns) == PushNeighborsSeq(stk, path, BTreeSetIter(ns))

\* A plausible slip: the visited set is never consulted.
NeverVisited(v, node) == FALSE

\* visited.contains(&node)
IsVisited(v, node) == node \in v

\* One iteration of the loop `while let Some((node, path)) = stack.pop()`, shared
\* by any_path (hit: node == to) and reachable_predicate (hit: pred(node)).
\* d is [stack, visited, result, done]; the loop is left with a result, or when
\* the stack runs empty.
DfsIteration(e, d, hit) ==
  LET top  == d.stack[Len(d.stack)]
      rest == SubSeq(d.stack, 1, Len(d.stack) - 1)
  IN  IF IsVisited(d.visited, top.node)
      THEN [d EXCEPT !.stack = rest, !.done = (rest = <<>>)]
      ELSE IF top.node \in hit
      THEN [stack |-> rest, visited |-> d.visited \cup {top.node},
            result |-> PathTryFrom(top.path), done |-> TRUE]
      ELSE LET pushed == PushNeighbors(rest, top.path, EdgesGet(e, top.node))
           IN  [stack |-> pushed, visited |-> d.visited \cup {top.node},
                result |-> None, done |-> (pushed = <<>>)]

\* let mut visited = BTreeSet::new(); let mut stack = vec![(from, vec![from])];
DfsStart(from) ==
  [stack |-> <<[node |-> from, path |-> <<from>>]>>, visited |-> {},
   result |-> None, done |-> FALSE]

\* The loop run to its end.
RECURSIVE DfsRun(_, _, _)
DfsRun(e, d, hit) == IF d.done THEN d.result ELSE DfsRun(e, DfsIteration(e, d, hit), hit)

\* Dag::any_path
any_path(e, from, to) == DfsRun(e, DfsStart(from), {to})

\* Dag::reachable_predicate, pred given as the set of nodes it accepts
reachable_predicate(e, from, pred) == DfsRun(e, DfsStart(from), pred)

(***************************************************************************)
(* AutoFixer (src/src/autofix.rs): the [features] table of one manifest.   *)
(* A feature is a toml_edit Array: its values with their decor (prefix and *)
(* suffix, the whitespace and comments around a value), the text after the *)
(* last value (trailing) and the trailing-comma flag.                      *)
(***************************************************************************)

\* The elements of a sequence
Range(f) == {f[i] : i \in DOMAIN f}

\* char::is_whitespace, on the characters the model uses
IsWhitespace(c) == c \in {" ", "\t", "\n"}

\* str::trim_end_matches(c)
RECURSIVE TrimEndMatches(_, _)
TrimEndMatches(s, c) ==
  IF s # <<>> /\ s[Len(s)] = c THEN TrimEndMatches(SubSeq(s, 1, Len(s) - 1), c) ELSE s

\* str::trim_start_matches(c)
RECURSIVE TrimStartMatches(_, _)
TrimStartMatches(s, c) ==
  IF s # <<>> /\ Head(s) = c THEN TrimStartMatches(Tail(s), c) ELSE s

\* str::trim_end
RECURSIVE TrimEnd(_)
TrimEnd(s) ==
  IF s # <<>> /\ IsWhitespace(s[Len(s)]) THEN TrimEnd(SubSeq(s, 1, Len(s) - 1)) ELSE s

\* str::trim_start
RECURSIVE TrimStart(_)
TrimStart(s) == IF s # <<>> /\ IsWhitespace(Head(s)) THEN TrimStart(Tail(s)) ELSE s

\* str::trim
Trim(s) == TrimStart(TrimEnd(s))

\* str::ends_with
EndsWith(s, suf) ==
  Len(s) >= Len(suf) /\ SubSeq(s, Len(s) - Len(suf) + 1, Len(s)) = suf

\* str::replace(c, "")
RECURSIVE ReplaceWithEmpty(_, _)
ReplaceWithEmpty(s, c) ==
  IF s = <<>> THEN <<>>
  ELSE IF Head(s) = c THEN ReplaceWithEmpty(Tail(s), c)
  ELSE <<Head(s)>> \o ReplaceWithEmpty(Tail(s), c)

\* Array::new
ArrayNew == [values |-> <<>>, trailing |-> <<>>, trailing_comma |-> FALSE]

\* Value::from(v).decorated(prefix, suffix)
Decorated(v, prefix, suffix) == [str |-> v, prefix |-> prefix, suffix |-> suffix]

\* doc.contains_table("features") and features.contains_key(feature)
HasFeature(d, feature) == d.features /\ feature \in DOMAIN d.feats

\* features.insert(feature, item)
FeaturesInsert(d, feature, arr) ==
  [features |-> TRUE,
   feats |-> [n \in DOMAIN d.feats \cup {feature} |-> IF n = feature THEN arr ELSE d.feats[n]]]

\* AutoFixer::add_feature
add_feature(d, feature) ==
  IF HasFeature(d, feature) THEN d ELSE FeaturesInsert(d, feature, ArrayNew)

\* The first loop of add_to_feature on one value: the prefix is made to end with
\* newline and tab, the suffix loses its trailing newlines.
ReformatValue(value) ==
  LET prefix == IF ~EndsWith(value.prefix, <<"\n", "\t">>)
                  THEN TrimEnd(value.prefix) \o <<"\n", "\t">>
                  ELSE value.prefix
      suffix == TrimEndMatches(value.suffix, "\n")
  IN  [str |-> value.str, prefix |-> TrimStartMatches(prefix, " "), suffix |-> suffix]

\* A plausible slip: the suffix of the previous value is dropped, not moved.
DropSuffix(new_vals, i) ==
  [new_vals EXCEPT ![i - 1].suffix = <<>>]

\* One iteration of `for i in 1..new_vals.len()` (i counted from 1 here): the
\* suffix of the previous value moves in front of the prefix of value i.
MoveSuffix(new_vals, i) ==
  [new_vals EXCEPT ![i].prefix = new_vals[i - 1].suffix \o new_vals[i].prefix,
                   ![i - 1].suffix = <<>>]

RECURSIVE MoveSuffixes(_, _)
MoveSuffixes(new_vals, i) ==
  IF i > Len(new_vals) THEN new_vals ELSE MoveSuffixes(MoveSuffix(new_vals, i), i + 1)

\* AutoFixer::add_to_feature
add_to_feature(d, feature, v) ==
  LET old      == IF HasFeature(d, feature) THEN d.feats[feature] ELSE ArrayNew
      values   == old.values
      new_vals == Append([i \in 1..Len(values) |-> ReformatValue(values[i])],
                         Decorated(v, <<"\n", "\t">>, <<"\n">>))
  IN  FeaturesInsert(d, feature,
        [values |-> MoveSuffixes(new_vals, 2),
         trailing |-> TrimStartMatches(old.trailing, "\n"),
         trailing_comma |-> FALSE])

\* Vec::remove(i), i counted from 1
VecRemove(values, i) == SubSeq(values, 1, i - 1) \o SubSeq(values, i + 1, Len(values))

\* A plausible slip: of two equal neighbours the earlier one is removed.
RemoveEarlier(values, i) == VecRemove(values, i - 1)

\* values.remove(i) in dedub_feature: of two equal neighbours the later one goes.
RemoveDuplicate(values, i) == VecRemove(values, i)

\* The loop `for i in (0..values.len()).rev()` of dedub_feature, i counted from 1.
RECURSIVE DedubLoop(_, _)
DedubLoop(values, i) ==
  IF i = 0 THEN [result |-> "ok", values |-> values]
  ELSE IF i = 1 THEN DedubLoop(values, 0)
  ELSE LET current  == values[i]
           cur_str  == current.str
           last_str == values[i - 1].str
       IN  IF StrLess(cur_str, last_str)
           THEN [result |-> "not_sorted", values |-> values]
           ELSE IF cur_str # last_str
           THEN IF ReplaceWithEmpty(cur_str, "?") = ReplaceWithEmpty(last_str, "?")
                THEN [result |-> "conflict", values |-> values]
                ELSE DedubLoop(values, i - 1)
           ELSE IF Trim(current.prefix) # <<>> \/ Trim(current.suffix) # <<>>
           THEN [result |-> "comment", values |-> values]
           ELSE DedubLoop(RemoveDuplicate(values, i), i - 1)

\* AutoFixer::dedub_feature: the result and the array afterwards (an error
\* leaves the array as it was).
dedub_feature(feature) ==
  LET r == DedubLoop(feature.values, Len(feature.values))
  IN  [result |-> r.result,
       feature |-> IF r.result = "ok" THEN [feature EXCEPT !.values = r.values] ELSE feature]

\* A plausible slip: a value is placed before the values equal to it.
RECURSIVE InsertBeforeEqual(_, _)
InsertBeforeEqual(sorted, value) ==
  IF sorted = <<>> THEN <<value>>
  ELSE IF ~StrLess(Head(sorted).str, value.str) THEN <<value>> \o sorted
  ELSE <<Head(sorted)>> \o InsertBeforeEqual(Tail(sorted), value)

\* Vec::sort_by on the strings: a stable sort.
RECURSIVE InsertStable(_, _)
InsertStable(sorted, value) ==
  IF sorted = <<>> THEN <<value>>
  ELSE IF StrLess(value.str, Head(sorted).str) THEN <<value>> \o sorted
  ELSE <<Head(sorted)>> \o InsertStable(Tail(sorted), value)

RECURSIVE SortBy(_)
SortBy(values) ==
  IF values = <<>> THEN <<>>
  ELSE InsertStable(SortBy(SubSeq(values, 1, Len(values) - 1)), values[Len(values)])

\* AutoFixer::sort_feature
sort_feature(feature) == [feature EXCEPT !.values = SortBy(feature.values)]

(***************************************************************************)
(* Formatting a feature array (toml_edit renders an array as its values,   *)
(* each with its decor, separated by commas, and then the trailing text)   *)
(***************************************************************************)

Quoted(str) == <<"\"">> \o str \o <<"\"">>

\* The values as they are written: prefix, string, suffix, separated by commas.
RECURSIVE ValuesText(_)
ValuesText(values) ==
  IF values = <<>> THEN <<>>
  ELSE LET value == Head(values)
       IN  value.prefix \o Quoted(value.str) \o value.suffix
             \o (IF Len(values) > 1 THEN <<",">> ELSE <<>>) \o ValuesText(Tail(values))

ArrayText(arr) ==
  <<"[">> \o ValuesText(arr.values)
    \o (IF arr.trailing_comma THEN <<",">> ELSE <<>>) \o arr.trailing \o <<"]">>

\* str::lines: the pieces between line ends; a final line end opens no line.
RECURSIVE Lines(_)
Lines(s) ==
  IF s = <<>> THEN <<>>
  ELSE IF "\n" \notin Range(s) THEN <<s>>
  ELSE LET i == CHOOSE k \in 1..Len(s) : s[k] = "\n" /\ \A j \in 1..(k - 1) : s[j] # "\n"
       IN  <<SubSeq(s, 1, i - 1)>> \o Lines(SubSeq(s, i + 1, Len(s)))

\* [String]::join("\n")
RECURSIVE JoinLines(_)
JoinLines(lines) ==
  IF lines = <<>> THEN <<>>
  ELSE IF Len(lines) = 1 THEN lines[1]
  ELSE lines[1] \o <<"\n">> \o JoinLines(Tail(lines))

\* AutoFixer::format_pre_and_suffix
format_pre_and_suffix(fix) ==
  LET lines == Lines(fix)
  IN  JoinLines([i \in 1..Len(lines) |->
                   IF i = 1 THEN TrimEnd(lines[i])
                   ELSE IF i = Len(lines) THEN TrimStart(lines[i])
                   ELSE <<"\t">> \o Trim(lines[i])])

\* chars().filter(|c| !c.is_whitespace()).collect()
NoWhitespace(s) == SelectSeq(s, LAMBDA c : ~IsWhitespace(c))

\* AutoFixer::format_feature_oneline: the result and the array afterwards
format_feature_oneline(feature) ==
  IF Trim(feature.trailing) # <<>>
  THEN [result |-> "has trailing", feature |-> feature]
  ELSE IF \E i \in 1..Len(feature.values) :
            \/ NoWhitespace(feature.values[i].prefix) # <<>>
            \/ NoWhitespace(feature.values[i].suffix) # <<>>
  THEN [result |-> "has comments", feature |-> feature]
  ELSE [result |-> "ok",
        feature |->
          [values |-> [i \in 1..Len(feature.values) |->
                         Decorated(feature.values[i].str, <<" ">>,
                                   IF i = Len(feature.values) THEN <<" ">> ELSE <<>>)],
           trailing |-> <<>>,
           trailing_comma |-> FALSE]]

\* The first loop of format_feature_multiline: every value gets a line of its
\* own, its comments on lines of their own around it.
MultilineDecor(value) ==
  LET suffix == Trim(format_pre_and_suffix(value.suffix))
      prefix == Trim(format_pre_and_suffix(value.prefix))
  IN  Decorated(value.str,
                IF prefix = <<>> THEN <<"\n", "\t">>
                ELSE <<"\n", "\t">> \o prefix \o <<"\n", "\t">>,
                IF suffix = <<>> THEN <<>>
                ELSE <<"\n", "\t">> \o suffix \o <<"\n", "\t">>)

\* "Last one gets a newline": the suffix of the last value is rewritten to a
\* comma, a line end and what the suffix held.
LastGetsNewline(value) ==
  LET suffix == Trim(format_pre_and_suffix(value.suffix))
  IN  [value EXCEPT !.suffix = IF suffix = <<>> THEN <<",", "\n">>
                                ELSE <<",", "\n", "\t">> \o suffix \o <<"\n">>]

\* AutoFixer::format_feature_multiline
format_feature_multiline(feature) ==
  [values |-> [i \in 1..Len(feature.values) |->
                 IF i = Len(feature.values)
                 THEN LastGetsNewline(MultilineDecor(feature.values[i]))
                 ELSE MultilineDecor(feature.values[i])],
   trailing |-> Trim(feature.trailing),
   trailing_comma |-> FALSE]

\* u32::saturating_sub
SaturatingSub(a, b) == IF a > b THEN a - b ELSE 0

\* AutoFixer::format_feature: the one-line layout when the array has neither
\* comments nor trailing text and its text is shorter than the line allows,
\* the multi-line layout otherwise.
format_feature(fname, feature, line_width) ==
  LET oneliner == format_feature_oneline(feature)
  IN  IF /\ oneliner.result = "ok"
         /\ Len(ArrayText(oneliner.feature)) < SaturatingSub(line_width, Len(fname) + 1)
      THEN oneliner.feature
      ELSE format_feature_multiline(feature)

\* AutoFixer::canonicalize_feature; modes is the set of the modes given.
canonicalize_feature(fname, modes, line_width, feature) ==
  IF "none" \in modes THEN [result |-> "ok", feature |-> feature]
  ELSE LET sorted == IF modes = {} \/ "sort" \in modes THEN sort_feature(feature) ELSE feature
           dedubed == IF modes = {} \/ "dedub" \in modes
                      THEN dedub_feature(sorted)
                      ELSE [result |-> "ok", feature |-> sorted]
       IN  IF dedubed.result # "ok" THEN dedubed
           ELSE IF modes = {} \/ "canonicalize" \in modes
           THEN [result |-> "ok", feature |-> format_feature(fname, dedubed.feature, line_width)]
           ELSE dedubed

(***************************************************************************)
(* Metadata and the feature DAG (src/src/cmd/mod.rs, src/src/cmd/lint.rs). *)
(* c is the static part of a run (command line, packages, dependencies,    *)
(* resolve graph, paths), m the features of each package by name.          *)
(***************************************************************************)

Default == <<"d", "e", "f", "a", "u", "l", "t">>

Entrypoint == <<"#", "e", "n", "t", "r", "y", "p", "o", "i", "n", "t">>

\* Option<String>
NoString == [some |-> FALSE, val |-> <<>>]

SomeString(str) == [some |-> TRUE, val |-> str]

\* Option::unwrap_or
UnwrapOr(o, d) == IF o.some THEN o.val ELSE d

\* Option<String>::map_or(true, |p| p == str)
MapOrTrueEq(o, str) == ~o.some \/ o.val = str

\* str::contains(c)
StrContains(str, c) == \E i \in 1..Len(str) : str[i] = c

\* str::find(c), counted from 1
StrFind(str, c) == CHOOSE i \in 1..Len(str) : str[i] = c /\ \A j \in 1..(i - 1) : str[j] # c

\* str::split(c): the pieces between the occurrences of c
RECURSIVE Split(_, _)
Split(str, c) ==
  IF ~StrContains(str, c) THEN <<str>>
  ELSE <<SubSeq(str, 1, StrFind(str, c) - 1)>>
         \o Split(SubSeq(str, StrFind(str, c) + 1, Len(str)), c)

\* str::split_once(c).unwrap()
SplitOnce(str, c) ==
  <<SubSeq(str, 1, StrFind(str, c) - 1), SubSeq(str, StrFind(str, c) + 1, Len(str))>>

\* str::replace(c, r) for a one-character r
ReplaceChar(str, c, r) == [i \in 1..Len(str) |-> IF str[i] = c THEN r ELSE str[i]]

\* The smallest index of a nonempty set of indices (Iterator::find takes the
\* first match).
First(indices) == CHOOSE i \in indices : \A j \in indices : i <= j

\* PackageId of the package named name, as text
PkgId(name) == name \o <<":", "0">>

\* cargo_metadata::Package of the package named name
Package(c, m, name) ==
  [name |-> name, id |-> PkgId(name), features |-> m[name],
   dependencies |-> c.dependencies[name], manifest_path |-> c.manifest_path[name]]

\* Option<RenamedPackage>; pkg is the name of the package
NoPackage == [some |-> FALSE, pkg |-> <<>>, rename |-> NoString, optional |-> FALSE]

\* RenamedPackage::new
RenamedPackageNew(pkg, rename, optional) ==
  [some |-> TRUE, pkg |-> pkg, rename |-> rename, optional |-> optional]

\* RenamedPackage::name
RenamedPackageName(dep) == UnwrapOr(dep.rename, dep.pkg)

\* resolve_dep, by the resolve graph (resolve_dep_from_graph)
resolve_dep(c, pkg, dep) ==
  LET dep_name == ReplaceChar(UnwrapOr(dep.rename, dep.name), "-", "_")
      nodes    == {i \in 1..Len(c.resolve) : c.resolve[i].id = pkg.id}
  IN  IF nodes = {} THEN NoPackage
      ELSE LET resolved_pkg == c.resolve[First(nodes)]
               deps == {j \in 1..Len(resolved_pkg.deps) : resolved_pkg.deps[j].name = dep_name}
           IN  IF deps = {} THEN NoPackage
               ELSE LET resolved_dep_id == resolved_pkg.deps[First(deps)]
                        pkgs == {k \in 1..Len(c.packages) :
                                   PkgId(c.packages[k]) = resolved_dep_id.pkg}
                    IN  IF pkgs = {} THEN NoPackage
                        ELSE RenamedPackageNew(c.packages[First(pkgs)], dep.rename,
                                               dep.optional)

\* pkg.dependencies.iter().find(|d| d.rename.as_ref().unwrap_or(&d.name) == dep)
FindDependency(pkg, dep) ==
  pkg.dependencies[First({i \in 1..Len(pkg.dependencies) :
      UnwrapOr(pkg.dependencies[i].rename, pkg.dependencies[i].name) = dep})]

\* The node of a dependency: the id of the resolved package, else its name.
DepIdOrName(c, pkg, dep) ==
  LET r == resolve_dep(c, pkg, dep)
  IN  IF r.some THEN PkgId(r.pkg) ELSE dep.name

\* build_feature_dag, the edges of one dependency declaration; when the
\* default features are used and the dependency does not resolve, the
\* `continue` skips its feature list.
DependencyEdges(c, pkg, dep) ==
  LET r == resolve_dep(c, pkg, dep)
      features == [i \in 1..Len(dep.features) |->
                     << <<pkg.id, Default>>, <<dep.name, dep.features[i]>> >>]
  IN  IF dep.uses_default_features
      THEN << << <<pkg.id, Default>>, <<dep.name, Default>> >> >>
             \o (IF r.some
                 THEN << << <<pkg.id, Entrypoint>>, <<PkgId(r.pkg), Default>> >> >> \o features
                 ELSE <<>>)
      ELSE features

\* build_feature_dag, the edge of one entry of a feature
FeatureEdge(c, pkg, feature, dep) ==
  IF StrContains(dep, ":")
  THEN << <<pkg.id, feature>>,
          <<DepIdOrName(c, pkg, FindDependency(pkg, Split(dep, ":")[2])), Default>> >>
  ELSE IF StrContains(dep, "/")
  THEN LET splits == Split(dep, "/")
       IN  << <<pkg.id, feature>>,
              <<DepIdOrName(c, pkg, FindDependency(pkg, ReplaceWithEmpty(splits[1], "?"))),
                splits[2]>> >>
  ELSE << <<pkg.id, feature>>, <<pkg.id, dep>> >>

\* Iterator::flatten on vectors
RECURSIVE Flatten(_)
Flatten(seqs) == IF seqs = <<>> THEN <<>> ELSE Head(seqs) \o Flatten(Tail(seqs))

\* The keys of a BTreeMap<String, _> in iteration order
RECURSIVE BTreeKeys(_)
BTreeKeys(S) ==
  IF S = {} THEN <<>>
  ELSE LET k == CHOOSE k \in S : \A o \in S \ {k} : StrLess(k, o)
       IN  <<k>> \o BTreeKeys(S \ {k})

\* build_feature_dag, the edges of one package in the order they are added
PackageEdges(c, pkg) ==
  LET features == BTreeKeys(DOMAIN pkg.features)
  IN  Flatten([i \in 1..Len(pkg.dependencies) |->
                 DependencyEdges(c, pkg, pkg.dependencies[i])])
        \o Flatten([i \in 1..Len(features) |->
                 [j \in 1..Len(pkg.features[features[i]]) |->
                    FeatureEdge(c, pkg, features[i], pkg.features[features[i]][j])]])

RECURSIVE AddEdges(_, _)
AddEdges(e, es) ==
  IF es = <<>> THEN e ELSE AddEdges(add_edge(e, Head(es)[1], Head(es)[2]), Tail(es))

\* build_feature_dag(&meta, &meta.packages)
build_feature_dag(c, m) ==
  AddEdges(DagNew, Flatten([i \in 1..Len(c.packages) |->
                              PackageEdges(c, Package(c, m, c.packages[i]))]))

(***************************************************************************)
(* lint propagate-feature (src/src/cmd/lint.rs)                            *)
(***************************************************************************)

\* Dag::adjacent: whether the edge a -> b exists
adjacent(e, a, b) == a \in DOMAIN e /\ b \in e[a]

\* The nodes of a Dag: whatever is on either side of the edge relation
DagNodes(e) == DOMAIN e \cup UNION {e[k] : k \in DOMAIN e}

\* Dag::sub: the nodes that satisfy the predicate (given as the set keep of
\* the nodes it accepts) and the edges between them
sub(e, keep) == [k \in DOMAIN e \cap keep |-> e[k] \cap keep]

\* A plausible slip: the search is not restricted at all.
AnyNode(pkg_id, dep_id, node) == TRUE

\* The predicate of the sub-graph: the entry point of pkg and the nodes of dep.
SubDagPred(pkg_id, dep_id, node) ==
  (node[1] = pkg_id /\ node[2] = Entrypoint) \/ node[1] = dep_id

\* PropagateFeatureCmd::ignore_missing_propagate: the table as a map
ignore_missing_propagate(c) ==
  LET pairs == {<<<<SplitOnce(p[1], "/")[1], SplitOnce(p[1], "/")[2]>>,
                  <<SplitOnce(p[2], "/")[1], SplitOnce(p[2], "/")[2]>>>> :
                  p \in {c.ignore_missing_propagate[i] :
                           i \in 1..Len(c.ignore_missing_propagate)}}
  IN  [lhs \in {p[1] : p \in pairs} |-> {p[2] : p \in {q \in pairs : q[1] = lhs}}]

\* Whether the table lists (dep, feature) under (pkg, feature)
IgnoresMissing(c, pkg_name, dep_name, feature) ==
  LET table == ignore_missing_propagate(c)
  IN  \E lhs \in DOMAIN table :
        /\ pkg_name = lhs[1] /\ lhs[2] = feature
        /\ \E i \in table[lhs] : dep_name = i[1] /\ i[2] = feature

\* meta.workspace_members.iter().any(|m| m == &pkg.id)
InWorkspace(c, pkg) == \E i \in 1..Len(c.workspace_members) : PkgId(c.workspace_members[i]) = pkg.id

\* The body of `for dep in pkg.dependencies.iter()`: what gets recorded for one
\* dependency declaration, and the resolved dependency.
CheckDependency(c, m, e, feature, pkg, dep0) ==
  LET Record(dep) ==
        IF dep0.kind \in DOMAIN c.dep_kinds /\ c.dep_kinds[dep0.kind] = "Ignore" THEN "none"
        ELSE IF ~dep.some THEN "none"
        ELSE IF feature \notin DOMAIN m[dep.pkg] THEN "none"
        ELSE IF feature \notin DOMAIN pkg.features
        THEN IF c.left_side_feature_missing # "Ignore" THEN "feature_missing" ELSE "none"
        ELSE IF \/ adjacent(e, <<pkg.id \o <<"?">>, feature>>, <<PkgId(dep.pkg), feature>>)
                \/ adjacent(e, <<pkg.id, feature>>, <<PkgId(dep.pkg), feature>>)
        THEN "none"
        ELSE IF any_path(sub(e, {n \in DagNodes(e) : SubDagPred(pkg.id, PkgId(dep.pkg), n)}),
                         <<pkg.id, Entrypoint>>, <<PkgId(dep.pkg), feature>>).some
        THEN "none"
        ELSE IF IgnoresMissing(c, pkg.name, dep.pkg, feature) THEN "none"
        ELSE "propagate_missing"
      Result(dep) == [record |-> Record(dep), dep |-> dep]
  IN  Result(resolve_dep(c, pkg, dep0))

\* The Ord of RenamedPackage: by (pkg.name, pkg.id)
RenamedPackageLess(a, b) ==
  StrLess(a.pkg, b.pkg) \/ (a.pkg = b.pkg /\ StrLess(PkgId(a.pkg), PkgId(b.pkg)))

\* BTreeSet<RenamedPackage>::insert on the set in iteration order: an element
\* that compares equal to a present one is not inserted.
RECURSIVE BTreeSetInsert(_, _)
BTreeSetInsert(set, dep) ==
  IF set = <<>> THEN <<dep>>
  ELSE IF RenamedPackageLess(dep, Head(set)) THEN <<dep>> \o set
  ELSE IF RenamedPackageLess(Head(set), dep) THEN <<Head(set)>> \o BTreeSetInsert(Tail(set), dep)
  ELSE set

\* lookup: the package with this id
Lookup(c, m, id) ==
  Package(c, m, c.packages[First({i \in 1..Len(c.packages) : PkgId(c.packages[i]) = id})])

\* The packages to check, less those outside the workspace when these are
\* ignored.
ToCheck(c, m) ==
  LET pkgs == [i \in 1..Len(c.packages) |-> Package(c, m, c.packages[i])]
      Listed(pkg) == \E i \in 1..Len(c.filter) : c.filter[i] = pkg.name
      Skipped(pkg) == ~InWorkspace(c, pkg) /\ c.left_side_outside_workspace = "Ignore"
  IN  {pkgs[i] : i \in {j \in 1..Len(pkgs) :
         /\ c.filter = <<>> \/ Listed(pkgs[j])
         /\ ~Skipped(pkgs[j])}}

\* `for pkg in to_check.iter()`: for the id of every checked package, what is
\* recorded for each of its dependency declarations.
Checks(c, m, e, feature) ==
  LET Row(pkg) == [i \in 1..Len(pkg.dependencies) |->
                     CheckDependency(c, m, e, feature, pkg, pkg.dependencies[i])]
  IN  [id \in {pkg.id : pkg \in ToCheck(c, m)} |-> Row(Lookup(c, m, id))]

\* The dependencies of one package up to declaration i that are recorded as
\* kind, as the BTreeSet they are inserted into
RECURSIVE RecordedDeps(_, _, _)
RecordedDeps(row, kind, i) ==
  IF i = 0 THEN <<>>
  ELSE LET Insert(before) ==
             IF row[i].record = kind THEN BTreeSetInsert(before, row[i].dep) ELSE before
       IN  Insert(RecordedDeps(row, kind, i - 1))

\* The map propagate_missing or feature_missing (kind), from crate id to the
\* set of dependencies in iteration order; a crate without entry has no key.
RecordedMap(checks, kind) ==
  LET NonEmpty(all) == [id \in {k \in DOMAIN all : all[k] # <<>>} |-> all[id]]
  IN  NonEmpty([id \in DOMAIN checks |-> RecordedDeps(checks[id], kind, Len(checks[id]))])

\* Path::starts_with: by whole components
PathStartsWith(path, base) ==
  Len(base) <= Len(path) /\ SubSeq(path, 1, Len(base)) = base

\* fs::canonicalize on a path given by its components: a ".." component
\* leaves the directory before it (links are not modelled).
RECURSIVE CanonicalizeFrom(_, _)
CanonicalizeFrom(dir, rest) ==
  IF rest = <<>> THEN dir
  ELSE IF Head(rest) = ".." THEN CanonicalizeFrom(SubSeq(dir, 1, Len(dir) - 1), Tail(rest))
  ELSE CanonicalizeFrom(Append(dir, Head(rest)), Tail(rest))

canonicalize(path) == CanonicalizeFrom(<<>>, path)

\* A plausible slip: every path may be modified.
AnyPath(c, manifest_path) == TRUE

\* krate_path.starts_with(&allowed_dir) ||
\*   self.modify_paths.iter().any(|p| krate_path.starts_with(p))
CanModify(c, manifest_path) ==
  LET allowed_dir == canonicalize(c.workspace_root)
      krate_path  == canonicalize(manifest_path)
  IN  \/ PathStartsWith(krate_path, allowed_dir)
      \/ \E i \in 1..Len(c.modify_paths) : PathStartsWith(krate_path, c.modify_paths[i])

\* A plausible slip: the manifest is never saved.
NeverSave(fixes) == FALSE

\* if fixes > 0 { fixer.save() }
ShouldSave(fixes) == fixes > 0

\* GlobalArgs::error_code
error_code(c) == IF c.exit_code_zero THEN 0 ELSE 1

\* The body of `for dep in deps.iter()` of the propagate fix; s holds the
\* document of the fixer and the counters.
FixDep(c, feature, dep, has_fixer, s) ==
  LET dep_name == RenamedPackageName(dep)
      non_optional == <<feature, dep_name>> \in c.feature_enables_dep
      opt == IF ~non_optional /\ dep.optional THEN <<"?">> ELSE <<>>
  IN  IF ~MapOrTrueEq(c.fix_dependency, dep_name) THEN s
      ELSE IF ~has_fixer THEN s
      ELSE [s EXCEPT !.doc = add_to_feature(@, feature, dep_name \o opt \o <<"/">> \o feature),
                     !.fixes = @ + 1]

RECURSIVE FixDeps(_, _, _, _, _)
FixDeps(c, feature, deps, has_fixer, s) ==
  IF deps = <<>> THEN s
  ELSE FixDeps(c, feature, Tail(deps), has_fixer, FixDep(c, feature, Head(deps), has_fixer, s))

Diagnostics(kind, krate, feature, deps) ==
  {[kind |-> kind, pkg |-> krate.name, feature |-> feature, dep |-> deps[i]] :
     i \in 1..Len(deps)}

\* `if let Some(deps) = feature_missing.get(..)`: the diagnostic is printed;
\* when it is to be fixed and there is no fixer, the `continue` leaves the
\* body of the loop over the crates (skipped).
FeatureMissing(c, feature, krate, feature_missing, has_fixer, s) ==
  IF krate.id \notin DOMAIN feature_missing THEN s
  ELSE LET Printed(t) ==
             [t EXCEPT !.printed = @ \cup Diagnostics("feature_missing", krate, feature,
                                                       feature_missing[krate.id])]
       IN  IF ~(/\ c.fix
                /\ MapOrTrueEq(c.fix_package, krate.name)
                /\ c.left_side_feature_missing = "Fix"
                /\ (c.left_side_outside_workspace = "Fix" \/ InWorkspace(c, krate)))
           THEN Printed([s EXCEPT !.errors = @ + 1])
           ELSE IF ~has_fixer THEN Printed([s EXCEPT !.skipped = TRUE])
           ELSE Printed([s EXCEPT !.doc = add_feature(@, feature), !.fixes = @ + 1,
                                  !.errors = @ + 1])

\* `if let Some(deps) = propagate_missing.get(..)`
PropagateMissing(c, feature, krate, propagate_missing, has_fixer, s) ==
  IF s.skipped \/ krate.id \notin DOMAIN propagate_missing THEN s
  ELSE LET Counted(t) ==
             [t EXCEPT !.errors = @ + Len(propagate_missing[krate.id]),
                       !.printed = @ \cup Diagnostics("propagate_missing", krate, feature,
                                                       propagate_missing[krate.id])]
       IN  IF c.fix /\ MapOrTrueEq(c.fix_package, krate.name)
           THEN Counted(FixDeps(c, feature, propagate_missing[krate.id], has_fixer, s))
           ELSE Counted(s)

\* The end of the body: the fixer, if there is one, saves when fixes > 0.
\* acc is [errors, fixes, disk, saved, printed].
Save(krate, has_fixer, acc, s) ==
  IF s.skipped THEN [acc EXCEPT !.printed = s.printed]
  ELSE IF has_fixer /\ ShouldSave(s.fixes)
  THEN [errors |-> s.errors, fixes |-> s.fixes,
        disk |-> [acc.disk EXCEPT ![krate.name] = s.doc],
        saved |-> acc.saved \cup {krate.name}, printed |-> s.printed]
  ELSE [errors |-> s.errors, fixes |-> s.fixes, disk |-> acc.disk, saved |-> acc.saved,
        printed |-> s.printed]

\* The body of `for (krate, _) in faulty_crates`
FixCrate(c, feature, propagate_missing, feature_missing, krate, acc) ==
  LET Body(has_fixer) ==
        Save(krate, has_fixer, acc,
          PropagateMissing(c, feature, krate, propagate_missing, has_fixer,
            FeatureMissing(c, feature, krate, feature_missing, has_fixer,
              [doc |-> acc.disk[krate.name], errors |-> acc.errors, fixes |-> acc.fixes,
               printed |-> acc.printed, skipped |-> FALSE])))
  IN  Body(c.fix /\ CanModify(c, krate.manifest_path))

RECURSIVE FixCrates(_, _, _, _, _, _)
FixCrates(c, feature, propagate_missing, feature_missing, faulty_crates, acc) ==
  IF faulty_crates = <<>> THEN acc
  ELSE FixCrates(c, feature, propagate_missing, feature_missing, Tail(faulty_crates),
                 FixCrate(c, feature, propagate_missing, feature_missing,
                          Head(faulty_crates), acc))

\* faulty_crates.sort_by(|(a, _), (b, _)| a.name.cmp(&b.name)): a stable sort
RECURSIVE InsertByName(_, _)
InsertByName(sorted, krate) ==
  IF sorted = <<>> THEN <<krate>>
  ELSE IF StrLess(krate.name, Head(sorted).name) THEN <<krate>> \o sorted
  ELSE <<Head(sorted)>> \o InsertByName(Tail(sorted), krate)

RECURSIVE SortByName(_)
SortByName(crates) ==
  IF crates = <<>> THEN <<>>
  ELSE InsertByName(SortByName(SubSeq(crates, 1, Len(crates) - 1)), crates[Len(crates)])

\* The crates with a diagnostic, in the order in which they are reported
FaultyCrates(c, m, propagate_missing, feature_missing) ==
  LET ids == BTreeKeys(DOMAIN propagate_missing \cup DOMAIN feature_missing)
  IN  SortByName([i \in 1..Len(ids) |-> Lookup(c, m, ids[i])])

\* PropagateFeatureCmd::run_feature on the manifests d: what it recorded, what
\* it printed, the manifests afterwards, and whether it exits.
run_feature(c, m, e, feature, d) ==
  LET Fix(propagate_missing, feature_missing) ==
        LET Finish(acc) ==
              [propagate_missing |-> propagate_missing, feature_missing |-> feature_missing,
               errors |-> acc.errors, fixes |-> acc.fixes, disk |-> acc.disk,
               saved |-> acc.saved, printed |-> acc.printed,
               exit |-> acc.errors > acc.fixes]
        IN  Finish(FixCrates(c, feature, propagate_missing, feature_missing,
                             FaultyCrates(c, m, propagate_missing, feature_missing),
                             [errors |-> 0, fixes |-> 0, disk |-> d, saved |-> {},
                              printed |-> {}]))
      Detect(checks) ==
        Fix(RecordedMap(checks, "propagate_missing"), RecordedMap(checks, "feature_missing"))
  IN  Detect(Checks(c, m, e, feature))

\* The entries of a feature as cargo metadata reports them
FeatureEntries(feature) == [i \in 1..Len(feature.values) |-> feature.values[i].str]

\* load_metadata: the features of every package, read from its manifest
load_metadata(d) ==
  [name \in DOMAIN d |->
     [feature \in DOMAIN d[name].feats |-> FeatureEntries(d[name].feats[feature])]]

(***************************************************************************)
(* The Dag specification: a graph is built edge by edge, then one query    *)
(* runs on it, one loop iteration per step.                                *)
(***************************************************************************)

\* The editor part at rest (the Dag specification leaves it alone).
EmptyDoc == [features |-> FALSE, feats |-> <<>>]

NoOp == [name |-> "none", feature |-> <<>>, v |-> <<>>, result |-> "ok"]

FixIdle ==
  /\ doc = EmptyDoc
  /\ pre = EmptyDoc
  /\ op = NoOp

NoDetection == [feature |-> <<>>, propagate_missing |-> {}, feature_missing |-> {}]

\* The lint part at rest (the other specifications leave it alone).
LintIdle ==
  /\ cfg = <<>>
  /\ disk = <<>>
  /\ meta = <<>>
  /\ lintPc = "start"
  /\ pending = <<>>
  /\ runNo = 0
  /\ detected = NoDetection
  /\ reported = {}
  /\ written = {}
  /\ exitCode = -1

NoQuery == [kind |-> "none", from |-> <<>>, to |-> <<>>, pred |-> {}]

\* The Dag part before anything was built.
LiftIdle ==
  /\ liftCfg = <<>>
  /\ files = <<>>
  /\ fixers = <<>>
  /\ todo = <<>>
  /\ liftPc = "idle"
  /\ saves = <<>>

\* No workflow file was read.
WfIdle ==
  /\ wfInput = <<>>
  /\ wfFile = <<>>
  /\ wfPc = "idle"

DagIdle ==
  /\ edges = DagNew
  /\ dagPc = "build"
  /\ query = NoQuery
  /\ stack = <<>>
  /\ visited = {}
  /\ result = None
  /\ iters = 0
  /\ expanded = <<>>

DagInit ==
  /\ DagIdle
  /\ FixIdle
  /\ LintIdle
  /\ LiftIdle
  /\ WfIdle

AddNode ==
  /\ dagPc = "build"
  /\ \E n \in Nodes : edges' = add_node(edges, n)
  /\ UNCHANGED <<dagPc, query, stack, visited, result, iters, expanded, fixVars, lintVars, liftVars, wfVars>>

AddEdge ==
  /\ dagPc = "build"
  /\ \E a \in Nodes, b \in Nodes :
       /\ edges' = add_edge(edges, a, b)
       /\ num_edges(edges') <= MaxEdges
  /\ UNCHANGED <<dagPc, query, stack, visited, result, iters, expanded, fixVars, lintVars, liftVars, wfVars>>

StartQuery(q) ==
  /\ dagPc = "build"
  /\ dagPc' = "search"
  /\ query' = q
  /\ stack' = DfsStart(q.from).stack
  /\ visited' = {}
  /\ result' = None
  /\ iters' = 0
  /\ expanded' = <<>>
  /\ UNCHANGED <<edges, fixVars, lintVars, liftVars, wfVars>>

AnyPathStart ==
  \E a \in Nodes, b \in Nodes :
    StartQuery([kind |-> "any_path", from |-> a, to |-> b, pred |-> {b}])

ReachablePredicateStart ==
  \E a \in Nodes, p \in SUBSET Nodes :
    StartQuery([kind |-> "reachable_predicate", from |-> a, to |-> <<>>, pred |-> p])

DfsStep(kind) ==
  /\ dagPc = "search"
  /\ query.kind = kind
  /\ LET d0 == [stack |-> stack, visited |-> visited, result |-> result, done |-> FALSE]
         d1 == DfsIteration(edges, d0, query.pred)
         top == stack[Len(stack)]
     IN  /\ stack' = d1.stack
         /\ visited' = d1.visited
         /\ result' = d1.result
         /\ dagPc' = IF d1.done THEN "done" ELSE "search"
         /\ iters' = iters + 1
         /\ expanded' = IF top.node \in d1.visited /\ top.node \notin visited
                           /\ ~d1.result.some
                        THEN Append(expanded, top.node) ELSE expanded
  /\ UNCHANGED <<edges, query, fixVars, lintVars, liftVars, wfVars>>

AnyPathStep == DfsStep("any_path")

ReachablePredicateStep == DfsStep("reachable_predicate")

DagNext ==
  \/ AddNode
  \/ AddEdge
  \/ AnyPathStart
  \/ ReachablePredicateStart
  \/ AnyPathStep
  \/ ReachablePredicateStep

SpecDag == DagInit /\ [][DagNext]_vars

(***************************************************************************)
(* The editor specification: one manifest is loaded, then features are     *)
(* added, extended, sorted and de-duplicated, one operation per step.      *)
(***************************************************************************)

MaxLen == 3

\* The feature that is edited; the manifest has a second feature, g.
FeatureNames == {<<"f">>}

\* The entries a loaded feature may hold: one dependency feature, the same of
\* a dependency whose name sorts in between, and its optional form.
LoadedEntries == {<<"a", "/", "f">>, <<"a", "0", "/", "f">>, <<"a", "?", "/", "f">>}

\* The entries that get added.
AddedEntries == {<<"a", "/", "f">>, <<"b">>}

\* The decor a loaded value may have: on a line of its own, in line, and with a
\* comment line before it and a comment behind it.
LoadedDecors ==
  { [prefix |-> <<"\n", "\t">>, suffix |-> <<>>],
    [prefix |-> <<" ">>, suffix |-> <<" ">>],
    [prefix |-> <<"\n", "\t", "#", "c", "\n">>, suffix |-> <<" ", "#", "d", "\n">>] }

LoadedValues == {Decorated(s, d.prefix, d.suffix) : s \in LoadedEntries, d \in LoadedDecors}

\* What follows the last value of a loaded feature: the closing bracket, or a
\* comma and a line end, or a comma and a comment line.
LoadedTrailings ==
  { [trailing |-> <<>>, trailing_comma |-> FALSE],
    [trailing |-> <<"\n">>, trailing_comma |-> TRUE],
    [trailing |-> <<"\n", "\t", "#", "e", "\n">>, trailing_comma |-> TRUE] }

LoadedArrays ==
  { [values |-> vs, trailing |-> t.trailing,
     trailing_comma |-> (t.trailing_comma /\ vs # <<>>)] :
      vs \in UNION {[1..k -> LoadedValues] : k \in 0..MaxLen}, t \in LoadedTrailings }

\* g = [ "b" ]
OtherFeature ==
  [values |-> <<Decorated(<<"b">>, <<" ">>, <<" ">>)>>, trailing |-> <<>>,
   trailing_comma |-> FALSE]

\* AutoFixer::from_manifest: no [features] table, a table with g only, or a
\* table with g and f.
LoadedDocs ==
  {EmptyDoc, FeaturesInsert(EmptyDoc, <<"g">>, OtherFeature)}
    \cup {FeaturesInsert(FeaturesInsert(EmptyDoc, <<"g">>, OtherFeature), <<"f">>, arr) :
            arr \in LoadedArrays}

FixInit ==
  /\ DagIdle
  /\ LintIdle
  /\ LiftIdle
  /\ WfIdle
  /\ doc \in LoadedDocs
  /\ pre = doc
  /\ op = NoOp

FeatureLen(d, feature) == IF HasFeature(d, feature) THEN Len(d.feats[feature].values) ELSE 0

AddFeature ==
  \E feature \in FeatureNames :
    /\ pre' = doc
    /\ doc' = add_feature(doc, feature)
    /\ op' = [name |-> "add_feature", feature |-> feature, v |-> <<>>, result |-> "ok"]
    /\ UNCHANGED <<dagVars, lintVars, liftVars, wfVars>>

AddToFeature ==
  \E feature \in FeatureNames, v \in AddedEntries :
    /\ FeatureLen(doc, feature) < MaxLen
    /\ pre' = doc
    /\ doc' = add_to_feature(doc, feature, v)
    /\ op' = [name |-> "add_to_feature", feature |-> feature, v |-> v, result |-> "ok"]
    /\ UNCHANGED <<dagVars, lintVars, liftVars, wfVars>>

DedubFeature ==
  \E feature \in FeatureNames :
    /\ HasFeature(doc, feature)
    /\ LET r == dedub_feature(doc.feats[feature])
       IN  /\ pre' = doc
           /\ doc' = [doc EXCEPT !.feats[feature] = r.feature]
           /\ op' = [name |-> "dedub_feature", feature |-> feature, v |-> <<>>,
                     result |-> r.result]
    /\ UNCHANGED <<dagVars, lintVars, liftVars, wfVars>>

SortFeature ==
  \E feature \in FeatureNames :
    /\ HasFeature(doc, feature)
    /\ pre' = doc
    /\ doc' = [doc EXCEPT !.feats[feature] = sort_feature(@)]
    /\ op' = [name |-> "sort_feature", feature |-> feature, v |-> <<>>, result |-> "ok"]
    /\ UNCHANGED <<dagVars, lintVars, liftVars, wfVars>>

\* Formatting an array again and again lengthens the suffix of its last value
\* without end; an array is formatted while its suffixes are this short.
MaxDecor == 6

\* The line widths given: one that holds a single entry only, and the default.
LineWidths == {12, 80}

\* The modes given for the feature: canonicalize only, or none at all, which
\* stands for sort, dedub and canonicalize.
ModeSets == {{"canonicalize"}, {}}

CanonicalizeFeature ==
  \E feature \in FeatureNames, modes \in ModeSets, line_width \in LineWidths :
    /\ HasFeature(doc, feature)
    /\ \A i \in 1..Len(doc.feats[feature].values) :
         Len(doc.feats[feature].values[i].suffix) <= MaxDecor
    /\ \E r \in {canonicalize_feature(feature, modes, line_width, doc.feats[feature])} :
         /\ pre' = doc
         /\ doc' = [doc EXCEPT !.feats[feature] = r.feature]
         /\ op' = [name |-> "canonicalize_feature", feature |-> feature, v |-> <<>>,
                   result |-> r.result, modes |-> modes, line_width |-> line_width]
    /\ UNCHANGED <<dagVars, lintVars, liftVars, wfVars>>

FixNext ==
  \/ AddFeature
  \/ AddToFeature
  \/ DedubFeature
  \/ SortFeature

SpecFix == FixInit /\ [][FixNext]_vars

\* The formatter alone, on every loaded document
FmtNext == CanonicalizeFeature

SpecFmt == FixInit /\ [][FmtNext]_vars

(***************************************************************************)
(* The lint specification: `lint propagate-feature` runs on a workspace of *)
(* three packages, a depending on b and c, c depending on b; with --fix it *)
(* is run again on the manifests it left.                                  *)
(***************************************************************************)

MaxRuns == 2

PkgA == <<"a">>
PkgB == <<"b">>
PkgC == <<"c">>
KeyX == <<"x">>
FeatF == <<"f">>
FeatG == <<"g">>

\* cargo_metadata::Dependency
Dependency(name, rename, kind, optional, uses_default_features) ==
  [name |-> name, rename |-> rename, kind |-> kind, optional |-> optional,
   uses_default_features |-> uses_default_features, features |-> <<>>]

\* A feature written one entry per line
PlainFeature(entries) ==
  [values |-> [i \in 1..Len(entries) |-> Decorated(entries[i], <<"\n", "\t">>, <<>>)],
   trailing |-> IF entries = <<>> THEN <<>> ELSE <<"\n">>,
   trailing_comma |-> entries # <<>>]

\* A manifest with these features (feature name -> entries)
Manifest(features) ==
  [features |-> DOMAIN features # {},
   feats |-> [f \in DOMAIN features |-> PlainFeature(features[f])]]

DepFeature(key, opt, feature) == key \o opt \o <<"/">> \o feature

\* One workspace and one command line. b_dep is a's dependency on b, resolves
\* says whether the resolve graph has it; a_path is the manifest path of a.
World(b_dep, resolves, a_features, b_features, c_features, a_member, a_path, args) ==
  LET key == UnwrapOr(b_dep.rename, b_dep.name)
      c_dep == Dependency(PkgC, NoString, "Normal", FALSE, TRUE)
      cb_dep == Dependency(PkgB, NoString, "Normal", FALSE, FALSE)
  IN  [cfg |->
         [packages |-> <<PkgA, PkgB, PkgC>>,
          workspace_members |-> (IF a_member THEN <<PkgA>> ELSE <<>>) \o <<PkgB, PkgC>>,
          workspace_root |-> <<"w">>,
          manifest_path |-> (PkgA :> a_path @@ PkgB :> <<"w", "b", "Cargo.toml">>
                               @@ PkgC :> <<"w", "c", "Cargo.toml">>),
          dependencies |-> (PkgA :> <<b_dep, c_dep>> @@ PkgB :> <<>> @@ PkgC :> <<cb_dep>>),
          resolve |->
            << [id |-> PkgId(PkgA),
                deps |-> (IF resolves
                            THEN <<[name |-> ReplaceChar(key, "-", "_"), pkg |-> PkgId(PkgB)]>>
                            ELSE <<>>) \o <<[name |-> PkgC, pkg |-> PkgId(PkgC)]>>],
               [id |-> PkgId(PkgB), deps |-> <<>>],
               [id |-> PkgId(PkgC), deps |-> <<[name |-> PkgB, pkg |-> PkgId(PkgB)]>>] >>,
          modify_paths |-> args.modify_paths,
          features |-> args.features,
          filter |-> args.filter,
          feature_enables_dep |-> args.feature_enables_dep,
          left_side_feature_missing |-> args.left_side_feature_missing,
          left_side_outside_workspace |-> args.left_side_outside_workspace,
          dep_kinds |-> ("Normal" :> "Check" @@ "Development" :> args.dev @@ "Build" :> "Check"),
          ignore_missing_propagate |-> args.ignore_missing_propagate,
          fix |-> args.fix,
          fix_dependency |-> args.fix_dependency,
          fix_package |-> args.fix_package,
          exit_code_zero |-> args.exit_code_zero],
       disk |-> (PkgA :> Manifest(a_features) @@ PkgB :> Manifest(b_features)
                   @@ PkgC :> Manifest(c_features))]

\* The command line when nothing is given but the features
DefaultArgs ==
  [modify_paths |-> <<>>, features |-> <<FeatF>>, filter |-> <<>>,
   feature_enables_dep |-> {}, left_side_feature_missing |-> "Fix",
   left_side_outside_workspace |-> "Fix", dev |-> "Check",
   ignore_missing_propagate |-> <<>>, fix |-> FALSE, fix_dependency |-> NoString,
   fix_package |-> NoString, exit_code_zero |-> FALSE]

InsidePath == <<"w", "a", "Cargo.toml">>

OutsidePath == <<"w", "..", "r", "a", "Cargo.toml">>

\* How a names b: plain, renamed, optional
RenameAndOptional == {<<NoString, FALSE>>, <<SomeString(KeyX), FALSE>>, <<NoString, TRUE>>}

NoFeatures == [f \in {} |-> <<>>]

\* The [features] of b: none; f; f in the default features; f behind another
\* default feature; f not in the default features.
BFeatureSets ==
  { NoFeatures,
    FeatF :> <<>>,
    FeatF :> <<>> @@ Default :> <<FeatF>>,
    FeatF :> <<>> @@ Default :> <<FeatG>> @@ FeatG :> <<FeatF>>,
    FeatF :> <<>> @@ Default :> <<FeatG>> @@ FeatG :> <<>> }

\* The [features] of a: none; f empty; f to c only; and, where b has f, f to b,
\* f to b through a feature of a, f to b as optional dependency.
AFeatureSets(key, optional, b_has_f) ==
  {NoFeatures, FeatF :> <<>>, FeatF :> <<DepFeature(PkgC, <<>>, FeatF)>>}
    \cup (IF b_has_f
          THEN {FeatF :> <<DepFeature(key, <<>>, FeatF)>>,
                FeatF :> <<FeatG>> @@ FeatG :> <<DepFeature(key, <<>>, FeatF)>>}
          ELSE {})
    \cup (IF b_has_f /\ optional THEN {FeatF :> <<DepFeature(key, <<"?">>, FeatF)>>} ELSE {})

\* The [features] of c: f is a default feature and passes to b where b has it.
CFeatures(b_has_f) ==
  Default :> <<FeatF>>
    @@ FeatF :> (IF b_has_f THEN <<DepFeature(PkgB, <<>>, FeatF)>> ELSE <<>>)

\* Which packages are checked: all; all but a, which is no member; c only; a
\* only, which is no member.
CheckedSets ==
  { [filter |-> <<>>, outside |-> "Fix", a_member |-> TRUE],
    [filter |-> <<>>, outside |-> "Ignore", a_member |-> FALSE],
    [filter |-> <<PkgC>>, outside |-> "Fix", a_member |-> TRUE],
    [filter |-> <<PkgA>>, outside |-> "Report", a_member |-> FALSE] }

\* How the dependency of a on b is declared and resolved and which packages are
\* checked: the plain case, and each way of leaving it.
DetectVariants ==
  LET Plain == [kind |-> "Normal", dev |-> "Check", resolves |-> TRUE,
                checked |-> [filter |-> <<>>, outside |-> "Fix", a_member |-> TRUE]]
  IN  {Plain,
       [Plain EXCEPT !.kind = "Development"],
       [Plain EXCEPT !.kind = "Development", !.dev = "Ignore"],
       [Plain EXCEPT !.resolves = FALSE]}
        \cup {[Plain EXCEPT !.checked = ch] : ch \in CheckedSets}

\* The features a lists on its dependency on b: g where b has it
ExplicitFeatures(bf) == IF FeatG \in DOMAIN bf THEN <<FeatG>> ELSE <<>>

\* Worlds that differ in what the lint has to detect; nothing is fixed.
DetectWorlds ==
  UNION {
    { World([Dependency(PkgB, ro[1], v.kind, ro[2], udf) EXCEPT !.features = ExplicitFeatures(bf)],
            v.resolves, af, bf,
            CFeatures(FeatF \in DOMAIN bf), v.checked.a_member, InsidePath,
            [DefaultArgs EXCEPT !.dev = v.dev, !.ignore_missing_propagate = ig,
                                !.filter = v.checked.filter,
                                !.left_side_outside_workspace = v.checked.outside]) :
        af \in AFeatureSets(UnwrapOr(ro[1], PkgB), ro[2], FeatF \in DOMAIN bf) } :
      ro \in RenameAndOptional, v \in DetectVariants, udf \in BOOLEAN, bf \in BFeatureSets,
      ig \in {<<>>, << <<DepFeature(PkgA, <<>>, FeatF), DepFeature(PkgB, <<>>, FeatF)>> >>} }

\* Where a lies: a member under the root; no member and elsewhere; a member
\* elsewhere; no member, elsewhere, and allowed by --modify-paths.
Scopes ==
  { [a_member |-> TRUE, a_path |-> InsidePath, modify_paths |-> <<>>],
    [a_member |-> FALSE, a_path |-> OutsidePath, modify_paths |-> <<>>],
    [a_member |-> TRUE, a_path |-> OutsidePath, modify_paths |-> <<>>],
    [a_member |-> FALSE, a_path |-> OutsidePath, modify_paths |-> << <<"r">> >>] }

\* The remaining arguments of a fixing run: the defaults, and each way of
\* leaving them.
FixVariants ==
  LET Plain == [features |-> <<FeatF>>, feature_enables_dep |-> {}, outside |-> "Fix",
                fix_dependency |-> NoString, fix_package |-> NoString,
                exit_code_zero |-> FALSE]
  IN  {Plain,
       [Plain EXCEPT !.features = <<FeatG, FeatF>>],
       [Plain EXCEPT !.feature_enables_dep = {<<FeatF, PkgB>>}],
       [Plain EXCEPT !.outside = "Report"],
       [Plain EXCEPT !.fix_dependency = SomeString(PkgC)],
       [Plain EXCEPT !.fix_package = SomeString(PkgC)],
       [Plain EXCEPT !.exit_code_zero = TRUE]}

\* Worlds that differ in what the lint may fix: b has f and g, c has f and does
\* not pass it on, a lacks f, or has it and passes it to nobody or to b only.
FixWorlds ==
  { World(Dependency(PkgB, ro[1], "Normal", ro[2], FALSE), TRUE, af[ro],
          FeatF :> <<>> @@ FeatG :> <<>>, FeatF :> <<>>, sc.a_member, sc.a_path,
          [DefaultArgs EXCEPT !.modify_paths = sc.modify_paths, !.features = v.features,
                              !.feature_enables_dep = v.feature_enables_dep,
                              !.left_side_feature_missing = lm,
                              !.left_side_outside_workspace = v.outside, !.fix = fix,
                              !.fix_dependency = v.fix_dependency,
                              !.fix_package = v.fix_package,
                              !.exit_code_zero = v.exit_code_zero]) :
      ro \in RenameAndOptional, sc \in Scopes, v \in FixVariants, lm \in {"Fix", "Report"},
      fix \in BOOLEAN,
      af \in { [r \in RenameAndOptional |-> NoFeatures],
               [r \in RenameAndOptional |-> FeatF :> <<>>],
               [r \in RenameAndOptional |->
                  FeatF :> <<DepFeature(UnwrapOr(r[1], PkgB), <<>>, FeatF)>>],
               [r \in RenameAndOptional |-> FeatF :> <<>> @@ FeatG :> <<>>] } }

LintInit ==
  /\ DagIdle
  /\ FixIdle
  /\ LiftIdle
  /\ WfIdle
  /\ \E w \in DetectWorlds \cup FixWorlds :
       /\ cfg = w.cfg
       /\ disk = w.disk
  /\ meta = <<>>
  /\ lintPc = "start"
  /\ pending = <<>>
  /\ runNo = 0
  /\ detected = NoDetection
  /\ reported = {}
  /\ written = {}
  /\ exitCode = -1


\* The pairs (crate, dependency) of a recorded map, by name
RecordedPairs(c, m, recorded) ==
  UNION {{<<Lookup(c, m, id).name, recorded[id][i].pkg>> : i \in 1..Len(recorded[id])} :
           id \in DOMAIN recorded}

\* PropagateFeatureCmd::run up to the loop: the metadata is loaded, the DAG is
\* built, the features are collected into a BTreeSet.
\* A command can be started; after the first, only fixing commands are run
\* again, and MaxRuns bounds their number.
CanStart ==
  \/ lintPc = "start"
  \/ lintPc \in {"returned", "exited", "failed"} /\ cfg.fix /\ runNo < MaxRuns

LintLoad ==
  /\ CanStart
  /\ meta' = load_metadata(disk)
  /\ edges' = build_feature_dag(cfg, meta')
  /\ pending' = BTreeKeys(Range(cfg.features))
  /\ lintPc' = "run"
  /\ runNo' = runNo + 1
  /\ detected' = NoDetection
  /\ exitCode' = -1
  /\ UNCHANGED <<cfg, disk, reported, written, fixVars, liftVars, wfVars>>
  /\ UNCHANGED <<dagPc, query, stack, visited, result, iters, expanded>>

\* One iteration of `for feature in features.into_iter()`: run_feature, which
\* ends the process when errors remain; after the last feature run returns.
LintRunFeature ==
  /\ lintPc = "run"
  /\ \E r \in {run_feature(cfg, meta, edges, Head(pending), disk)} :
       /\ disk' = r.disk
       /\ written' = written \cup
            {[run |-> runNo, cmd |-> "propagate-feature", path |-> cfg.manifest_path[name]] :
               name \in r.saved}
       /\ reported' = reported \cup
            {[run |-> runNo, kind |-> d.kind, pkg |-> d.pkg, feature |-> d.feature,
              dep |-> d.dep] : d \in r.printed}
       /\ detected' = [feature |-> Head(pending),
                       propagate_missing |-> RecordedPairs(cfg, meta, r.propagate_missing),
                       feature_missing |-> RecordedPairs(cfg, meta, r.feature_missing)]
       /\ IF r.exit
          THEN lintPc' = "exited" /\ exitCode' = error_code(cfg)
          ELSE IF Tail(pending) = <<>>
          THEN lintPc' = "returned" /\ exitCode' = 0
          ELSE lintPc' = "run" /\ exitCode' = exitCode
  /\ pending' = Tail(pending)
  /\ UNCHANGED <<cfg, meta, runNo, edges, fixVars, liftVars, wfVars>>
  /\ UNCHANGED <<dagPc, query, stack, visited, result, iters, expanded>>

LintNext ==
  \/ LintLoad
  \/ LintRunFeature

SpecLint == LintInit /\ [][LintNext]_vars

(***************************************************************************)
(* The commands that write manifests: propagate-feature as above, format   *)
(* features (src/src/cmd/fmt.rs), the no-std lint                          *)
(* (src/src/cmd/lint/nostd.rs) and lift-to-workspace                       *)
(* (src/src/cmd/transpose/lift_to_workspace.rs).  Of the manifests only    *)
(* the [features] are kept in disk; what these commands do to the          *)
(* dependency tables is kept in cfg.dependencies (default features) or     *)
(* left out (lifted dependencies).                                         *)
(***************************************************************************)

\* Where a lies, as above, and: a member elsewhere, allowed by --modify-paths.
WriteScopes ==
  Scopes \cup {[a_member |-> TRUE, a_path |-> OutsidePath, modify_paths |-> << <<"r">> >>]}

\* Worlds that differ in what may be written: a lacks f, has it and passes it
\* to nobody, to c only, or to c and b in this order.
WriteWorlds ==
  { World(Dependency(PkgB, NoString, "Normal", FALSE, udf), TRUE, af,
          FeatF :> <<>>, FeatF :> <<>>, sc.a_member, sc.a_path,
          [DefaultArgs EXCEPT !.modify_paths = sc.modify_paths, !.fix = fix]) :
      udf \in BOOLEAN, sc \in WriteScopes, fix \in BOOLEAN,
      af \in { NoFeatures, FeatF :> <<>>, FeatF :> <<DepFeature(PkgC, <<>>, FeatF)>>,
               FeatF :> <<DepFeature(PkgC, <<>>, FeatF), DepFeature(PkgB, <<>>, FeatF)>> } }

WriteInit ==
  /\ DagIdle
  /\ FixIdle
  /\ LiftIdle
  /\ WfIdle
  /\ \E w \in WriteWorlds :
       /\ cfg = w.cfg
       /\ disk = w.disk
  /\ meta = <<>>
  /\ lintPc = "start"
  /\ pending = <<>>
  /\ runNo = 0
  /\ detected = NoDetection
  /\ reported = {}
  /\ written = {}
  /\ exitCode = -1

\* The packages of metadata loaded with --no-deps (CargoArgs::with_workspace):
\* the workspace members
WorkspacePackages(c) == SelectSeq(c.packages, LAMBDA name : name \in Range(c.workspace_members))

\* resolve_dep_from_workspace: the workspace member of this name
resolve_dep_from_workspace(c, dep) ==
  LET work == WorkspacePackages(c)
      found == {i \in 1..Len(work) : work[i] = dep.name}
  IN  IF found = {} THEN NoPackage
      ELSE RenamedPackageNew(work[First(found)], dep.rename, dep.optional)

\* check_can_modify
check_can_modify(root, modify) == PathStartsWith(canonicalize(modify), canonicalize(root))

\* AutoFixer::canonicalize_features where every feature has the mode sort,
\* but the ignored ones, which have the mode none
canonicalize_features(d, ignored) ==
  [d EXCEPT !.feats = [f \in DOMAIN d.feats |->
                         IF f \in ignored THEN d.feats[f] ELSE sort_feature(d.feats[f])]]

\* FormatFeaturesCmd::run with --mode-per-feature sort for every feature and
\* --ignore-feature for the ignored ones; no_workspace is --no-workspace.
FormatFeatures(no_workspace, ignored) ==
  /\ CanStart
  /\ LET pkgs == IF no_workspace THEN cfg.packages ELSE WorkspacePackages(cfg)
         offenders == {name \in Range(pkgs) :
                         canonicalize_features(disk[name], ignored) # disk[name]}
         saved == {name \in offenders : cfg.fix /\ CanModify(cfg, cfg.manifest_path[name])}
     IN  /\ disk' = [name \in DOMAIN disk |->
                       IF name \in saved THEN canonicalize_features(disk[name], ignored)
                       ELSE disk[name]]
         /\ written' = written \cup
              {[run |-> runNo + 1, cmd |-> "format", path |-> cfg.manifest_path[name]] :
                 name \in saved}
         /\ IF offenders = {}
            THEN lintPc' = "returned" /\ exitCode' = 0
            ELSE lintPc' = "exited" /\ exitCode' = IF cfg.fix THEN 0 ELSE error_code(cfg)
  /\ meta' = load_metadata(disk)
  /\ runNo' = runNo + 1
  /\ pending' = <<>>
  /\ detected' = NoDetection
  /\ UNCHANGED <<cfg, reported, dagVars, fixVars, liftVars, wfVars>>

\* DefaultFeaturesDisabledCmd::run; nostd is the set of packages whose lib.rs
\* declares no_std.  The command fails when an issue is in a crate outside
\* the workspace root, and when it has not been told to fix.
DefaultFeaturesDisabled(nostd) ==
  /\ CanStart
  /\ LET pkgs == WorkspacePackages(cfg)
         allowed_dir == canonicalize(cfg.workspace_root)
         Issue(lhs, i) ==
           LET dep == cfg.dependencies[lhs][i]
               rhs == resolve_dep_from_workspace(cfg, dep)
           IN  /\ lhs \in nostd
               /\ dep.kind = "Normal"
               /\ rhs.some
               /\ rhs.pkg \in nostd
               /\ dep.uses_default_features
         autofixer == {lhs \in Range(pkgs) :
                         \E i \in 1..Len(cfg.dependencies[lhs]) : Issue(lhs, i)}
         refused == \E lhs \in autofixer :
                      ~PathStartsWith(canonicalize(cfg.manifest_path[lhs]), allowed_dir)
     IN  IF ~refused /\ cfg.fix
         THEN /\ cfg' = [cfg EXCEPT !.dependencies =
                           [lhs \in DOMAIN cfg.dependencies |->
                              [i \in 1..Len(cfg.dependencies[lhs]) |->
                                 IF lhs \in Range(pkgs) /\ Issue(lhs, i)
                                 THEN [cfg.dependencies[lhs][i] EXCEPT
                                         !.uses_default_features = FALSE]
                                 ELSE cfg.dependencies[lhs][i]]]]
              /\ written' = written \cup
                   {[run |-> runNo + 1, cmd |-> "no-std", path |-> cfg.manifest_path[lhs]] :
                      lhs \in autofixer}
              /\ lintPc' = "returned"
              /\ exitCode' = 0
         ELSE /\ UNCHANGED <<cfg, written>>
              /\ lintPc' = "failed"
              /\ exitCode' = -1
  /\ meta' = load_metadata(disk)
  /\ runNo' = runNo + 1
  /\ pending' = <<>>
  /\ detected' = NoDetection
  /\ UNCHANGED <<disk, reported, dagVars, fixVars, liftVars, wfVars>>

\* LiftToWorkspaceCmd::run for the dependencies named names.  failing are the
\* dependencies for which no rename, source location or version can be
\* selected; changed are the manifests whose text differs after the lift.
LiftToWorkspace(names, skip_package, ignore_errors, failing, changed) ==
  /\ CanStart
  /\ LET pkgs == WorkspacePackages(cfg)
         Users(name) == {pkg \in Range(pkgs) :
                           \E i \in 1..Len(cfg.dependencies[pkg]) :
                             cfg.dependencies[pkg][i].name = name}
         dependencies == {name \in names : Users(name) # {}}
         lifted == dependencies \ failing
         opened ==
           IF lifted = {} THEN {}
           ELSE {cfg.workspace_root \o <<"Cargo.toml">>}
                  \cup {cfg.manifest_path[pkg] : pkg \in
                         {u \in UNION {Users(name) : name \in lifted} :
                            /\ check_can_modify(cfg.workspace_root, cfg.manifest_path[u])
                            /\ ~(skip_package.some /\ skip_package.val = u)}}
         modified == opened \cap changed
     IN  IF dependencies \cap failing # {} /\ ~ignore_errors
         THEN \* run_for_dependency failed: try_apply_changes is not reached
              /\ UNCHANGED written
              /\ lintPc' = "failed"
              /\ exitCode' = -1
         ELSE /\ written' = written \cup
                   (IF cfg.fix
                    THEN {[run |-> runNo + 1, cmd |-> "lift-to-workspace", path |-> path] :
                            path \in modified}
                    ELSE {})
              /\ IF modified # {} /\ ~cfg.fix
                 THEN lintPc' = "failed" /\ exitCode' = -1
                 ELSE lintPc' = "returned" /\ exitCode' = 0
  /\ meta' = load_metadata(disk)
  /\ runNo' = runNo + 1
  /\ pending' = <<>>
  /\ detected' = NoDetection
  /\ UNCHANGED <<cfg, disk, reported, dagVars, fixVars, liftVars, wfVars>>

\* The manifests lift-to-workspace can touch
ManifestPaths == {cfg.manifest_path[name] : name \in Range(cfg.packages)}
                   \cup {cfg.workspace_root \o <<"Cargo.toml">>}

WriteNext ==
  \/ LintLoad
  \/ LintRunFeature
  \/ \E no_workspace \in BOOLEAN, ignored \in SUBSET {FeatF} :
       FormatFeatures(no_workspace, ignored)
  \/ \E nostd \in SUBSET Range(cfg.packages) : DefaultFeaturesDisabled(nostd)
  \/ \E names \in {{PkgB}, {PkgB, PkgC}}, skip_package \in {NoString, SomeString(PkgA)},
        ignore_errors \in BOOLEAN, failing \in SUBSET {PkgB}, changed \in SUBSET ManifestPaths :
       LiftToWorkspace(names, skip_package, ignore_errors, failing, changed)

SpecWrite == WriteInit /\ [][WriteNext]_vars

(***************************************************************************)
(* The commands that only report: never-implies, never-enables and         *)
(* duplicate-deps (src/src/cmd/lint.rs).  The command line adds cmd,       *)
(* precondition and stays_disabled to the configuration.                   *)
(***************************************************************************)

\* The closure lookup of NeverImpliesCmd::run: the name of the package with
\* this id
LookupName(c, id) ==
  c.packages[First({i \in 1..Len(c.packages) : PkgId(c.packages[i]) = id})]

\* Whether the first find of lookup returns a package for every node of the
\* path; its unwrap panics otherwise
LookupFinds(c, path) ==
  \A i \in 1..Len(path) : \E p \in Range(c.packages) : PkgId(p) = path[i][1]

\* The text of a path: name/feature for every node
RenderPath(c, path) ==
  [j \in 1..Len(path) |-> LookupName(c, path[j][1]) \o <<"/">> \o path[j][2]]

\* The loop of NeverImpliesCmd::run over dag.lhs_nodes() from the i-th node
\* on: the process exits after printing a path, panics in lookup, or the loop
\* ends and run returns
RECURSIVE NeverImpliesLoop(_, _, _, _)
NeverImpliesLoop(c, dag, nodes, i) ==
  IF i > Len(nodes) THEN [outcome |-> "returned", out |-> <<>>]
  ELSE IF nodes[i][2] # c.precondition THEN NeverImpliesLoop(c, dag, nodes, i + 1)
  ELSE LET Found(r) ==
             IF ~r.some THEN NeverImpliesLoop(c, dag, nodes, i + 1)
             ELSE IF ~LookupFinds(c, r.path) THEN [outcome |-> "panicked", out |-> <<>>]
             ELSE [outcome |-> "exited", out |-> RenderPath(c, r.path)]
       IN  Found(reachable_predicate(dag, nodes[i],
                                     {n \in DagNodes(dag) : n[2] = c.stays_disabled}))

\* The exit code of the process: 101 after a panic
ExitCodeOf(outcome) == IF outcome = "panicked" THEN 101 ELSE 0

\* BTreeSet<RenamedPackage>: the elements of a sequence inserted in order
RECURSIVE BTreeSetCollect(_, _)
BTreeSetCollect(set, deps) ==
  IF deps = <<>> THEN set
  ELSE BTreeSetCollect(BTreeSetInsert(set, Head(deps)), Tail(deps))

\* NeverEnablesCmd::run, the inner loop: the dependencies of lhs that resolve
\* and whose name/stays_disabled is among the enabled entries
DependencyOffenders(c, pkg, enabled) ==
  LET resolved == [i \in 1..Len(pkg.dependencies) |-> resolve_dep(c, pkg, pkg.dependencies[i])]
  IN  SelectSeq(resolved,
                LAMBDA rhs : /\ rhs.some
                             /\ (RenamedPackageName(rhs) \o <<"/">> \o c.stays_disabled)
                                  \in enabled)

\* NeverEnablesCmd::run, the offenders of the package lhs
Offenders(c, m, lhs) ==
  LET pkg == Package(c, m, lhs)
      enabled == Range(pkg.features[c.precondition])
      own == IF c.stays_disabled \in enabled
             THEN <<RenamedPackageNew(lhs, NoString, FALSE)>> ELSE <<>>
  IN  BTreeSetCollect(<<>>, own \o DependencyOffenders(c, pkg, enabled))

\* NeverEnablesCmd::run: what is printed, a crate with its dependencies
never_enables(c, m) ==
  {[kind |-> "never-enables", pkg |-> lhs, deps |-> Offenders(c, m, lhs)] :
     lhs \in {p \in Range(c.packages) :
                /\ c.precondition \in DOMAIN m[p]
                /\ Offenders(c, m, p) # <<>>}}

\* normalize_dep
normalize_dep(dep) == [dep EXCEPT !.kind = "Unknown"]

\* The dependencies of a kind, normalized, as a HashSet
NormalizedDeps(deps, kind) ==
  {normalize_dep(deps[i]) : i \in {j \in 1..Len(deps) : deps[j].kind = kind}}

\* DuplicateDepsCmd::run: the issues, a package with the name of a dependency
duplicate_deps(c) ==
  UNION {{[kind |-> "duplicate-deps", pkg |-> pkg, dep |-> dep.name] :
            dep \in NormalizedDeps(c.dependencies[pkg], "Normal")
                      \cap NormalizedDeps(c.dependencies[pkg], "Development")} :
           pkg \in Range(WorkspacePackages(c))}

\* The development dependency of a on b, when there is one: like the entry
\* in [dependencies] but never optional, or with the other default-features
\* setting.
DevDependencies(b_dep) ==
  { <<>>,
    <<[b_dep EXCEPT !.kind = "Development", !.optional = FALSE]>>,
    <<[b_dep EXCEPT !.kind = "Development", !.optional = FALSE,
                    !.uses_default_features = ~@]>> }

\* The command lines: never-implies and never-enables with a pair
\* (precondition, stays_disabled), and duplicate-deps
QueryArgs ==
  LET pairs == { <<FeatF, FeatF>>, <<FeatG, FeatF>>, <<Default, FeatF>>, <<Default, FeatG>> }
  IN  {[cmd |-> cmd, precondition |-> p[1], stays_disabled |-> p[2]] :
         cmd \in {"never-implies", "never-enables"}, p \in pairs}
        \cup {[cmd |-> "duplicate-deps", precondition |-> <<>>, stays_disabled |-> <<>>]}

\* The workspaces of the reporting commands: those of the lint with a normal
\* dependency of a on b and possibly a development dependency on it too.
QueryWorlds ==
  UNION {
    { [w EXCEPT !.cfg.dependencies[PkgA] = @ \o dev] :
        w \in { World([Dependency(PkgB, ro[1], "Normal", ro[2], udf)
                         EXCEPT !.features = ExplicitFeatures(bf)],
                      resolves, af, bf, CFeatures(FeatF \in DOMAIN bf), TRUE, InsidePath,
                      DefaultArgs) :
                  af \in AFeatureSets(UnwrapOr(ro[1], PkgB), ro[2], FeatF \in DOMAIN bf) },
        dev \in DevDependencies(Dependency(PkgB, ro[1], "Normal", ro[2], udf)) } :
      ro \in RenameAndOptional, resolves \in BOOLEAN, udf \in BOOLEAN, bf \in BFeatureSets }

QueryInit ==
  /\ DagIdle
  /\ FixIdle
  /\ LiftIdle
  /\ WfIdle
  /\ \E w \in QueryWorlds, args \in QueryArgs :
       /\ cfg = w.cfg @@ args
       /\ disk = w.disk
  /\ meta = <<>>
  /\ lintPc = "start"
  /\ pending = <<>>
  /\ runNo = 0
  /\ detected = NoDetection
  /\ reported = {}
  /\ written = {}
  /\ exitCode = -1

\* NeverImpliesCmd::run
NeverImplies ==
  /\ lintPc = "start"
  /\ cfg.cmd = "never-implies"
  /\ meta' = load_metadata(disk)
  /\ \E dag \in {build_feature_dag(cfg, meta')} :
       /\ edges' = dag
       /\ \E r \in {NeverImpliesLoop(cfg, dag, BTreeSetIter(DOMAIN dag), 1)} :
            /\ reported' = IF r.outcome = "exited"
                           THEN {[kind |-> "never-implies", path |-> r.out]} ELSE {}
            /\ lintPc' = r.outcome
            /\ exitCode' = ExitCodeOf(r.outcome)
  /\ runNo' = runNo + 1
  /\ UNCHANGED <<cfg, disk, pending, detected, written, fixVars, liftVars, wfVars>>
  /\ UNCHANGED <<dagPc, query, stack, visited, result, iters, expanded>>

\* NeverEnablesCmd::run
NeverEnables ==
  /\ lintPc = "start"
  /\ cfg.cmd = "never-enables"
  /\ meta' = load_metadata(disk)
  /\ reported' = never_enables(cfg, meta')
  /\ lintPc' = "returned"
  /\ exitCode' = 0
  /\ runNo' = runNo + 1
  /\ UNCHANGED <<cfg, disk, pending, detected, written, dagVars, fixVars, liftVars, wfVars>>

\* DuplicateDepsCmd::run
DuplicateDeps ==
  /\ lintPc = "start"
  /\ cfg.cmd = "duplicate-deps"
  /\ meta' = load_metadata(disk)
  /\ \E issues \in {duplicate_deps(cfg)} :
       /\ reported' = issues
       /\ IF issues # {}
          THEN lintPc' = "exited" /\ exitCode' = 1
          ELSE lintPc' = "returned" /\ exitCode' = 0
  /\ runNo' = runNo + 1
  /\ UNCHANGED <<cfg, disk, pending, detected, written, dagVars, fixVars, liftVars, wfVars>>

QueryNext ==
  \/ NeverImplies
  \/ NeverEnables
  \/ DuplicateDeps

SpecQuery == QueryInit /\ [][QueryNext]_vars

(***************************************************************************)
(* The dependency tables of a manifest (autofix.rs).  A manifest is         *)
(* [workspace, ws_dependencies, ws_deps, tables]: whether it has a          *)
(* [workspace] table and a [workspace.dependencies] table, the entries of   *)
(* the latter by key, and its dependency tables by kind and key.  An entry  *)
(* is a version string, an inline table or a table; keys and names are      *)
(* strings, versions and paths are sequences of characters.                 *)
(***************************************************************************)

StrItem(v) == [form |-> "str", str |-> v, keys |-> <<>>]

InlineTable(keys) == [form |-> "inline", str |-> <<>>, keys |-> keys]

Table(keys) == [form |-> "table", str |-> <<>>, keys |-> keys]

\* InlineTable::insert, Table::insert
Insert(t, k, v) == [x \in DOMAIN t \cup {k} |-> IF x = k THEN v ELSE t[x]]

\* InlineTable::remove, Table::remove
Remove(t, k) == [x \in DOMAIN t \ {k} |-> t[x]]

NoBool == [some |-> FALSE, val |-> FALSE]

SomeBool(b) == [some |-> TRUE, val |-> b]

\* The default-features key is set to the value given, or removed.
SetDefaultFeatures(t, default_feats) ==
  IF default_feats.some THEN Insert(t, "default-features", default_feats.val)
  ELSE Remove(t, "default-features")

\* A plausible slip: the source of an entry is not compared with the source
\* the dependency is lifted to.
AnySource(keys, location) == FALSE

\* The match on location of lift_some_dependency: the entry is of the other
\* source than the one the dependency is lifted to.
CrossSource(keys, location) ==
  \/ location = "Remote" /\ "path" \in DOMAIN keys
  \/ location = "Local" /\ "version" \in DOMAIN keys

\* AutoFixer::lift_some_dependency: the result and the entry afterwards
lift_some_dependency(dep, default_feats, location) ==
  IF dep.form = "str"
  THEN [result |-> "ok",
        dep |-> InlineTable(SetDefaultFeatures(Insert(<<>>, "workspace", TRUE), default_feats))]
  ELSE IF dep.form = "inline"
  THEN IF "git" \in DOMAIN dep.keys
       THEN [result |-> "Cannot lift git dependencies", dep |-> dep]
       ELSE IF CrossSource(dep.keys, location)
       THEN [result |-> "Lifting dependency would change its source", dep |-> dep]
       ELSE [result |-> "ok",
             dep |-> InlineTable(SetDefaultFeatures(
                       Insert(Remove(Remove(Remove(dep.keys, "path"), "version"), "package"),
                              "workspace", TRUE),
                       default_feats))]
  ELSE [result |-> "Dependency is not a string or an inline table", dep |-> dep]

\* AutoFixer::lift_dependency: the result and the manifest afterwards
lift_dependency(d, dname, kind, default_feats, location) ==
  IF kind \notin DOMAIN d.tables THEN [result |-> "ok", doc |-> d]
  ELSE IF dname \notin DOMAIN d.tables[kind] THEN [result |-> "ok", doc |-> d]
  ELSE LET Lifted(r) == [result |-> r.result,
                         doc |-> [d EXCEPT !.tables[kind][dname] = r.dep]]
       IN  Lifted(lift_some_dependency(d.tables[kind][dname], default_feats, location))

\* str::trim_start_matches with a pattern of several characters
RECURSIVE TrimStartMatchesStr(_, _)
TrimStartMatchesStr(s, pat) ==
  IF Len(s) >= Len(pat) /\ SubSeq(s, 1, Len(pat)) = pat
  THEN TrimStartMatchesStr(SubSeq(s, Len(pat) + 1, Len(s)), pat)
  ELSE s

\* AutoFixer::sanitize_path
sanitize_path(p) == TrimEndMatches(TrimStartMatchesStr(p, <<".", "/">>), "/")

\* remove_carrot: str::strip_prefix('^')
remove_carrot(version) ==
  IF version # <<>> /\ Head(version) = "^" THEN Tail(version) ELSE version

\* The checks of add_workspace_dep_inner on the keys of an existing entry
CheckFound(found, version_str, default_feats, local) ==
  IF "version" \in DOMAIN found /\ remove_carrot(found["version"]) # version_str
  THEN "different 'version' field"
  ELSE IF /\ local.some
          /\ "path" \in DOMAIN found
          /\ sanitize_path(local.val) # sanitize_path(found["path"])
  THEN "different 'path' field"
  ELSE IF "default-features" \in DOMAIN found /\ found["default-features"] # default_feats
  THEN "different 'default-features' fields"
  ELSE "ok"

\* The entry add_workspace_dep_inner inserts, made of the keys t of the
\* existing entry
NewEntry(t, dep_name, maybe_rename, version_str, default_feats, local) ==
  LET versioned == Insert(t, "version", version_str)
      located == IF local.some THEN Remove(Insert(versioned, "path", local.val), "version")
                 ELSE versioned
      defaulted == IF ~default_feats THEN Insert(located, "default-features", FALSE)
                   ELSE located
  IN  InlineTable(IF maybe_rename.some THEN Insert(defaulted, "package", dep_name)
                  ELSE defaulted)

\* AutoFixer::add_workspace_dep_inner: the result and the manifest afterwards
add_workspace_dep_inner(d, dep_name, maybe_rename, dep_version, default_feats, local) ==
  LET version_str == TrimStartMatches(dep_version, "^")
      deps == d.ws_deps
      found_orig == dep_name \in DOMAIN deps
      found_rename == maybe_rename.some /\ maybe_rename.val \in DOMAIN deps
      new_name == IF maybe_rename.some THEN maybe_rename.val ELSE dep_name
      Failed(e) == [result |-> e, doc |-> d]
      Inserted(t) ==
        [result |-> "ok",
         doc |-> [d EXCEPT !.ws_dependencies = TRUE,
                           !.ws_deps =
                             Insert(IF dep_name # new_name THEN Remove(deps, dep_name) ELSE deps,
                                    new_name,
                                    NewEntry(t, dep_name, maybe_rename, version_str,
                                             default_feats, local))]]
      Merged(found) ==
        IF found.form # "inline"
        THEN Failed("could not validate its compatibility")
        ELSE LET Checked(e) == IF e # "ok" THEN Failed(e) ELSE Inserted(found.keys)
             IN  Checked(CheckFound(found.keys, version_str, default_feats, local))
  IN  IF ~d.workspace THEN Failed("No workspace entry found")
      ELSE IF /\ found_rename
              /\ deps[maybe_rename.val].form # "str"
              /\ "package" \in DOMAIN deps[maybe_rename.val].keys
              /\ deps[maybe_rename.val].keys["package"] # dep_name
      THEN Failed("different alias")
      ELSE IF /\ found_rename
              /\ deps[maybe_rename.val].form # "str"
              /\ "package" \notin DOMAIN deps[maybe_rename.val].keys
      THEN Failed("alias has the same name as an un-aliased workspace dependency")
      ELSE IF found_rename THEN Merged(deps[maybe_rename.val])
      ELSE IF found_orig THEN Merged(deps[dep_name])
      ELSE Inserted(<<>>)

(***************************************************************************)
(* The dependency editor on one manifest: doc is the manifest, pre the      *)
(* manifest before the last operation and op the last operation.            *)
(***************************************************************************)

\* The key is in the table when a value is given for it.
WithKey(t, k, o) == IF o.some THEN Insert(t, k, o.val) ELSE t

Absent == [some |-> FALSE, val |-> FALSE]

Present(v) == [some |-> TRUE, val |-> v]

\* The keys of the entries a package manifest is loaded with: with and
\* without a version, a path, a git source, an alias and a default-features
\* setting.
LoadedKeys ==
  { WithKey(WithKey(WithKey(WithKey(WithKey(<<>>, "version", v), "path", p), "git", g),
                    "package", n), "default-features", f) :
      v \in {Absent, Present(<<"1">>)},
      p \in {Absent, Present(<<"l", "o", "g">>)},
      g \in {Absent, Present(<<"g">>)},
      n \in {Absent, Present("log")},
      f \in {Absent, Present(TRUE), Present(FALSE)} }

\* The entries of a package manifest: `log = "1"`, an inline table and a
\* [dependencies.log] table.
LoadedItems ==
  {StrItem(<<"1">>), Table(Insert(<<>>, "version", <<"1">>))}
    \cup {InlineTable(keys) : keys \in LoadedKeys}

\* The keys of the entries [workspace.dependencies] is loaded with
WorkspaceKeys ==
  { WithKey(WithKey(WithKey(WithKey(<<>>, "version", v), "path", p), "package", n),
            "default-features", f) :
      v \in {Absent, Present(<<"^", "1">>), Present(<<"2">>)},
      p \in {Absent, Present(<<"l", "o", "g">>), Present(<<"x">>)},
      n \in {Absent, Present("log"), Present("env")},
      f \in {Absent, Present(TRUE), Present(FALSE)} }

WorkspaceItems ==
  {StrItem(<<"1">>), Table(Insert(<<>>, "version", <<"1">>))}
    \cup {InlineTable(keys) : keys \in WorkspaceKeys}

\* A manifest without dependency tables
NoDependencies ==
  [workspace |-> FALSE, ws_dependencies |-> FALSE, ws_deps |-> <<>>, tables |-> <<>>]

\* AutoFixer::from_manifest: a package manifest with an entry for log, and a
\* workspace manifest that holds an entry for log under its name or under the
\* alias l.
LoadedManifests ==
  {NoDependencies, [NoDependencies EXCEPT !.workspace = TRUE]}
    \cup {[NoDependencies EXCEPT
             !.tables = Insert(<<>>, "dependencies", Insert(<<>>, "log", item))] :
            item \in LoadedItems}
    \cup {[NoDependencies EXCEPT !.workspace = TRUE, !.ws_dependencies = TRUE,
                                 !.ws_deps = Insert(<<>>, key, item)] :
            item \in WorkspaceItems, key \in {"log", "l"}}

\* The number of operations applied to a loaded manifest
MaxOps == 1

DepsInit ==
  /\ DagIdle
  /\ LintIdle
  /\ LiftIdle
  /\ WfIdle
  /\ doc \in LoadedManifests
  /\ pre = doc
  /\ op = [name |-> "none", n |-> 0, result |-> "ok"]

LiftDependency ==
  \E table \in {<<"log", "dependencies">>, <<"env", "dependencies">>,
                <<"log", "dev-dependencies">>},
     default_feats \in {NoBool, SomeBool(TRUE), SomeBool(FALSE)},
     location \in {"Local", "Remote"} :
    /\ op.n < MaxOps
    /\ \E r \in {lift_dependency(doc, table[1], table[2], default_feats, location)} :
         /\ pre' = doc
         /\ doc' = r.doc
         /\ op' = [name |-> "lift_dependency", dname |-> table[1], kind |-> table[2],
                   default_feats |-> default_feats, location |-> location,
                   n |-> op.n + 1, result |-> r.result]
    /\ UNCHANGED <<dagVars, lintVars, liftVars, wfVars>>

AddWorkspaceDep ==
  \E maybe_rename \in {NoString, SomeString("l")},
     dep_version \in {<<"^", "1">>, <<"^", "2">>},
     default_feats \in BOOLEAN,
     local \in {NoString, SomeString(<<"l", "o", "g">>), SomeString(<<".", "/", "l", "o", "g", "/">>)} :
    /\ op.n < MaxOps
    /\ \E r \in {add_workspace_dep_inner(doc, "log", maybe_rename, dep_version,
                                         default_feats, local)} :
         /\ pre' = doc
         /\ doc' = r.doc
         /\ op' = [name |-> "add_workspace_dep", dep_name |-> "log",
                   maybe_rename |-> maybe_rename, dep_version |-> dep_version,
                   default_feats |-> default_feats, local |-> local,
                   n |-> op.n + 1, result |-> r.result]
    /\ UNCHANGED <<dagVars, lintVars, liftVars, wfVars>>

DepsNext ==
  \/ LiftDependency
  \/ AddWorkspaceDep

SpecDeps == DepsInit /\ [][DepsNext]_vars

(***************************************************************************)
(* lift-to-workspace (cmd/transpose/lift_to_workspace.rs).  A directory is  *)
(* named by one character, a path is the sequence of its components.       *)
(***************************************************************************)

\* The directory of the crate log, to which every path entry for it leads
LogDirectory == <<"w", "l">>

\* cargo metadata: the dependency record of the entry `key` of a dependency
\* table
DepRecord(key, item, kind) ==
  LET keys == item.keys
      version == IF item.form = "str" THEN item.str
                 ELSE IF "version" \in DOMAIN keys THEN keys["version"]
                 ELSE <<"*">>
  IN  [name |-> IF "package" \in DOMAIN keys THEN keys["package"] ELSE key,
       rename |-> IF "package" \in DOMAIN keys THEN SomeString(key) ELSE NoString,
       req |-> IF Head(version) \in {"^", "*"} THEN version ELSE <<"^">> \o version,
       kind |-> kind,
       path |-> IF "path" \in DOMAIN keys THEN SomeString(LogDirectory) ELSE NoString,
       uses_default_features |->
         IF "default-features" \in DOMAIN keys THEN keys["default-features"] ELSE TRUE]

\* The keys of the maps of the model in the order of String::cmp
KeyOrder == <<"a", "b", "env", "l", "log", "magic:workspace", "o", "r">>

\* BTreeMap::keys: the keys in ascending order
SortedKeys(S) == SelectSeq(KeyOrder, LAMBDA k : k \in S)

\* cargo metadata: the dependency records of a manifest
DepRecords(d) ==
  IF "dependencies" \notin DOMAIN d.tables THEN <<>>
  ELSE LET keys == SortedKeys(DOMAIN d.tables["dependencies"])
       IN  [i \in 1..Len(keys) |->
              DepRecord(keys[i], d.tables["dependencies"][keys[i]], "dependencies")]

\* AutoFixer::from_manifest
from_manifest(fs, path) == [path |-> path, raw |-> fs[path], doc |-> fs[path]]

\* Map::entry(key).or_insert_with(|| AutoFixer::from_manifest(path))
OrInsert(fx, key, fs, path) ==
  IF key \in DOMAIN fx THEN fx ELSE Insert(fx, key, from_manifest(fs, path))

\* Every (package, dependency) pair of the metadata, in order
AllUses(c) ==
  Flatten([i \in 1..Len(c.packages) |->
             [j \in 1..Len(c.packages[i].dependencies) |->
                [pkg |-> c.packages[i], dep |-> c.packages[i].dependencies[j]]]])

\* build_version_index: the pairs that use the dependency; by_version holds
\* them by dep.req
build_version_index(c, name) == SelectSeq(AllUses(c), LAMBDA u : u.dep.name = name)

\* by_version.values().flatten() when the HashMap yields its keys in the
\* order given
ValuesFlatten(by_version, order) ==
  Flatten([k \in 1..Len(order) |-> SelectSeq(by_version, LAMBDA u : u.dep.req = order[k])])

Ok(v) == [ok |-> TRUE, val |-> v]

Err(e) == [ok |-> FALSE, val |-> e]

\* detect_rename
detect_rename(c, name) ==
  LET used == {u \in Range(AllUses(c)) :
                 /\ ~(c.skip_package.some /\ c.skip_package.val = u.pkg.name)
                 /\ u.dep.name = name}
      renames == {u.dep.rename.val : u \in {x \in used : x.dep.rename.some /\ x.dep.rename.val # name}}
      unrenamed == {u.pkg.name : u \in {x \in used : ~x.dep.rename.some \/ x.dep.rename.val = name}}
  IN  IF renames # {} /\ unrenamed # {} THEN Err("used with and without an alias")
      ELSE IF renames = {} THEN Ok(NoString)
      ELSE IF Cardinality(renames) = 1 THEN Ok(SomeString(CHOOSE r \in renames : TRUE))
      ELSE Err("conflicting aliases")

\* detect_source_location
detect_source_location(c, name) ==
  LET used == {u \in Range(AllUses(c)) : u.dep.name = name}
      local == \E u \in used : u.dep.path.some
      remote == \E u \in used : ~u.dep.path.some
  IN  IF local /\ remote THEN Err("used both locally and remotely")
      ELSE IF local THEN Ok("Local")
      ELSE IF remote THEN Ok("Remote")
      ELSE Err("not used in the workspace")

\* try_find_latest on caret requirements of one digit: the greatest, written
\* as a version
try_find_latest(reqs) ==
  IF reqs = {} THEN Err("No versions found")
  ELSE IF Cardinality(reqs) = 1 THEN Ok(CHOOSE r \in reqs : TRUE)
  ELSE IF \E r \in reqs : Head(r) # "^" THEN Err("Only caret is supported")
  ELSE LET latest == CHOOSE r \in reqs : \A o \in reqs : Code(o[2]) <= Code(r[2])
       IN  Ok(<<latest[2], ".", "0", ".", "0">>)

\* find_best_version
find_best_version(c, versions) ==
  IF c.version_selector = "Highest" THEN try_find_latest(versions)
  ELSE IF Cardinality(versions) > 1 THEN Err("Found different versions")
  ELSE Ok(CHOOSE r \in versions : TRUE)

\* VersionReq::parse and to_string on a version or a requirement
ReqToString(version) ==
  IF Head(version) \in {"^", "*"} THEN version ELSE <<"^">> \o version

\* Path::to_string of a relative path: its components with / between them
RECURSIVE PathToString(_)
PathToString(path) ==
  IF path = <<>> THEN <<>>
  ELSE IF Len(path) = 1 THEN path
  ELSE <<Head(path), "/">> \o PathToString(Tail(path))

\* path.strip_prefix(&meta.workspace_root).unwrap_or(path)
StripPrefix(path, base) ==
  IF PathStartsWith(path, base) THEN SubSeq(path, Len(base) + 1, Len(path)) ELSE path

\* A plausible slip: the crate's entry never keeps its own setting.
NoOverride(dep, workspace_default_features_enabled) == NoBool

\* The default-features setting given to lift_dependency: the crate's own
\* when it differs from the one of the workspace entry
DefaultFeatsOverride(dep, workspace_default_features_enabled) ==
  IF dep.uses_default_features # workspace_default_features_enabled
  THEN SomeBool(dep.uses_default_features)
  ELSE NoBool

\* The second loop of run_for_dependency from the i-th pair on: the result
\* and the fixers afterwards
RECURSIVE LiftLoop(_, _, _, _, _, _, _)
LiftLoop(c, fs, users, i, location, enabled, fx) ==
  IF i > Len(users) THEN [result |-> "ok", fixers |-> fx]
  ELSE LET pkg == users[i].pkg
           dep == users[i].dep
       IN  IF ~check_can_modify(c.workspace_root, pkg.manifest_path)
           THEN LiftLoop(c, fs, users, i + 1, location, enabled, fx)
           ELSE IF c.skip_package.some /\ pkg.name = c.skip_package.val
           THEN LiftLoop(c, fs, users, i + 1, location, enabled, fx)
           ELSE LET opened == OrInsert(fx, pkg.name, fs, pkg.manifest_path)
                    Lifted(r) ==
                      IF r.result # "ok" THEN [result |-> r.result, fixers |-> opened]
                      ELSE LiftLoop(c, fs, users, i + 1, location, enabled,
                                    [opened EXCEPT ![pkg.name].doc = r.doc])
                IN  Lifted(lift_dependency(opened[pkg.name].doc,
                                           UnwrapOr(dep.rename, dep.name), dep.kind,
                                           DefaultFeatsOverride(dep, enabled), location))

\* run_for_dependency, the HashMap by_version yielding its keys in the order
\* given: the result and the fixers afterwards (an error leaves the edits
\* made before it)
run_for_dependency(c, fs, name, order, fx) ==
  LET maybe_rename == detect_rename(c, name)
      source_location == detect_source_location(c, name)
      users == ValuesFlatten(build_version_index(c, name), order)
      best_version == find_best_version(c, Range(order))
      enabled == \A i \in 1..Len(users) :
                   check_can_modify(c.workspace_root, users[i].pkg.manifest_path)
                     => users[i].dep.uses_default_features
      opened == OrInsert(fx, "magic:workspace", fs, c.workspace_root \o <<"Cargo.toml">>)
      location == IF source_location.val = "Local"
                  THEN SomeString(PathToString(StripPrefix(users[1].dep.path.val,
                                                           c.workspace_root)))
                  ELSE NoString
      Added(r) ==
        IF r.result # "ok" THEN [result |-> r.result, fixers |-> opened]
        ELSE LiftLoop(c, fs, users, 1, source_location.val, enabled,
                      [opened EXCEPT !["magic:workspace"].doc = r.doc])
  IN  IF ~maybe_rename.ok THEN [result |-> maybe_rename.val, fixers |-> fx]
      ELSE IF ~source_location.ok THEN [result |-> source_location.val, fixers |-> fx]
      ELSE IF ~best_version.ok THEN [result |-> best_version.val, fixers |-> fx]
      ELSE Added(add_workspace_dep_inner(opened["magic:workspace"].doc, name,
                                         maybe_rename.val, ReqToString(best_version.val),
                                         enabled, location))

\* AutoFixer::modified
modified(fixer) == fixer.doc # fixer.raw

\* The loop of try_apply_changes with --fix over the keys given: the files
\* and the calls of fs::write afterwards
RECURSIVE SaveAll(_, _, _, _)
SaveAll(fx, keys, fs, written_so_far) ==
  IF keys = <<>> THEN [files |-> fs, saves |-> written_so_far]
  ELSE LET fixer == fx[Head(keys)]
       IN  IF ~modified(fixer) THEN SaveAll(fx, Tail(keys), fs, written_so_far)
           ELSE SaveAll(fx, Tail(keys), [fs EXCEPT ![fixer.path] = fixer.doc],
                        Append(written_so_far, [path |-> fixer.path, doc |-> fixer.doc]))

\* A plausible slip: every error is ignored.
AlwaysIgnore(c) == TRUE

\* --ignore-errors
IgnoreErrors(c) == c.ignore_errors

(***************************************************************************)
(* Runs of lift-to-workspace on a workspace in the directory w with the     *)
(* members a and b, possibly a member o outside of w and a root package r.  *)
(***************************************************************************)

\* The manifest of a package with the entries given
PackageManifest(items) ==
  [NoDependencies EXCEPT !.tables = Insert(<<>>, "dependencies", items)]

\* The entries for log in the manifest of a: a version, a version without
\* the default features, another version, a git source, an alias, a path.
ALog ==
  { Insert(<<>>, "log", StrItem(<<"1">>)),
    Insert(<<>>, "log",
           InlineTable(Insert(Insert(<<>>, "version", <<"1">>), "default-features", FALSE))),
    Insert(<<>>, "log", InlineTable(Insert(<<>>, "version", <<"2">>))),
    Insert(<<>>, "log", InlineTable(Insert(<<>>, "git", <<"g">>))),
    Insert(<<>>, "l",
           InlineTable(Insert(Insert(<<>>, "version", <<"1">>), "package", "log"))),
    Insert(<<>>, "log", InlineTable(Insert(<<>>, "path", <<".", ".", "/", "l">>))) }

\* The entries for log in the manifest of b: the first, second and last of
\* the above, or none.
BLog ==
  { <<>>,
    Insert(<<>>, "log", StrItem(<<"1">>)),
    Insert(<<>>, "log",
           InlineTable(Insert(Insert(<<>>, "version", <<"1">>), "default-features", FALSE))),
    Insert(<<>>, "log", InlineTable(Insert(<<>>, "path", <<".", ".", "/", "l">>))) }

\* The entries of the root package, when there is one
RLog ==
  { Insert(<<>>, "log", StrItem(<<"1">>)),
    Insert(<<>>, "log",
           InlineTable(Insert(Insert(<<>>, "version", <<"1">>), "default-features", FALSE))) }

RootManifest == <<"w", "Cargo.toml">>

\* The workspaces: the manifests by path and the members in the order of the
\* metadata.  a may depend on env too; the member o lies outside of w; the
\* root manifest is virtual or that of the package r; [workspace.dependencies]
\* is absent or holds log already.
LiftWorlds ==
  { [files |->
       Insert(Insert(Insert(Insert(<<>>, <<"w", "a", "Cargo.toml">>,
                                   PackageManifest(IF env THEN Insert(a, "env", StrItem(<<"1">>))
                                                   ELSE a)),
                            <<"w", "b", "Cargo.toml">>, PackageManifest(b)),
                     <<"o", "Cargo.toml">>,
                     PackageManifest(Insert(<<>>, "log",
                       InlineTable(Insert(Insert(<<>>, "version", <<"1">>),
                                          "default-features", FALSE))))),
              RootManifest,
              [workspace |-> TRUE, ws_dependencies |-> held,
               ws_deps |-> IF held
                           THEN Insert(<<>>, "log", InlineTable(Insert(<<>>, "version", <<"1">>)))
                           ELSE <<>>,
               tables |-> IF r.some THEN Insert(<<>>, "dependencies", r.val) ELSE <<>>]),
     members |->
       << [name |-> "a", manifest_path |-> <<"w", "a", "Cargo.toml">>],
          [name |-> "b", manifest_path |-> <<"w", "b", "Cargo.toml">>] >>
         \o (IF o THEN << [name |-> "o", manifest_path |-> <<"o", "Cargo.toml">>] >> ELSE <<>>)
         \o (IF r.some THEN << [name |-> "r", manifest_path |-> RootManifest] >> ELSE <<>>)] :
      a \in ALog, b \in BLog, env \in BOOLEAN, o \in BOOLEAN, held \in BOOLEAN,
      r \in {Absent} \cup {Present(items) : items \in RLog} }

\* The command lines: --fix with the selector unambiguous, and each way of
\* leaving it.
LiftArgs ==
  LET plain == [fix |-> TRUE, ignore_errors |-> FALSE, version_selector |-> "Unambiguous",
                skip_package |-> NoString, dependencies |-> {"env", "log"}]
  IN  { plain,
        [plain EXCEPT !.fix = FALSE],
        [plain EXCEPT !.ignore_errors = TRUE],
        [plain EXCEPT !.version_selector = "Highest"],
        [plain EXCEPT !.skip_package = SomeString("a")] }

\* CargoArgs::load_metadata: the members with their dependency records
LoadMetadata(w) ==
  [i \in 1..Len(w.members) |->
     [name |-> w.members[i].name,
      manifest_path |-> w.members[i].manifest_path,
      dependencies |-> DepRecords(w.files[w.members[i].manifest_path])]]

LiftInit ==
  /\ DagIdle
  /\ FixIdle
  /\ LintIdle
  /\ WfIdle
  /\ \E w \in LiftWorlds, args \in LiftArgs :
       /\ liftCfg = [fix |-> args.fix, ignore_errors |-> args.ignore_errors,
                     version_selector |-> args.version_selector,
                     skip_package |-> args.skip_package,
                     dependencies |-> args.dependencies,
                     workspace_root |-> <<"w">>,
                     packages |-> LoadMetadata(w)]
       /\ files = w.files
  /\ fixers = <<>>
  /\ todo = <<>>
  /\ liftPc = "start"
  /\ saves = <<>>

\* LiftToWorkspaceCmd::run up to its second loop: the dependencies named on
\* the command line that some package uses
LiftScan ==
  /\ liftPc = "start"
  /\ todo' = SortedKeys({name \in liftCfg.dependencies :
                           \E u \in Range(AllUses(liftCfg)) : u.dep.name = name})
  /\ liftPc' = "scan"
  /\ UNCHANGED <<liftCfg, files, fixers, saves, dagVars, fixVars, lintVars, wfVars>>

\* The orders in which a HashMap may yield the keys S
Orders(S) ==
  {order \in [1..Cardinality(S) -> S] :
     \A i, j \in 1..Cardinality(S) : order[i] = order[j] => i = j}

\* One iteration of the second loop of run: run_for_dependency, and an error
\* either logged or returned
RunForDependency ==
  /\ liftPc = "scan"
  /\ todo # <<>>
  /\ \E order \in Orders({u.dep.req : u \in Range(build_version_index(liftCfg, Head(todo)))}) :
       \E r \in {run_for_dependency(liftCfg, files, Head(todo), order, fixers)} :
         /\ fixers' = r.fixers
         /\ IF r.result = "ok" \/ IgnoreErrors(liftCfg)
            THEN todo' = Tail(todo) /\ liftPc' = "scan"
            ELSE todo' = todo /\ liftPc' = "failed"
  /\ UNCHANGED <<liftCfg, files, saves, dagVars, fixVars, lintVars, wfVars>>

\* try_apply_changes
TryApplyChanges ==
  /\ liftPc = "scan"
  /\ todo = <<>>
  /\ IF liftCfg.fix
     THEN \E r \in {SaveAll(fixers, SortedKeys(DOMAIN fixers), files, saves)} :
            /\ files' = r.files
            /\ saves' = r.saves
            /\ liftPc' = "returned"
     ELSE /\ UNCHANGED <<files, saves>>
          /\ liftPc' = IF \E k \in DOMAIN fixers : modified(fixers[k])
                       THEN "failed" ELSE "returned"
  /\ UNCHANGED <<liftCfg, fixers, todo, dagVars, fixVars, lintVars, wfVars>>

LiftNext ==
  \/ LiftScan
  \/ RunForDependency
  \/ TryApplyChanges

SpecLift == LiftInit /\ [][LiftNext]_vars

(***************************************************************************)
(* Workflow files (src/src/config/workflow.rs)                             *)
(*                                                                         *)
(* WorkflowFile::workflows is a BTreeMap from the name of a workflow to    *)
(* its steps; a step is a vector of tokens and a token is a string.        *)
(***************************************************************************)

MaxFileTokens == 3
MaxSteps == 2
MaxStepLen == 4

Digits == <<"0", "1", "2", "3", "4", "5", "6", "7", "8", "9">>

DigitValue(c) == (CHOOSE i \in 1..Len(Digits) : Digits[i] = c) - 1

RECURSIVE DecimalValue(_)
DecimalValue(digits) ==
  IF digits = <<>> THEN 0
  ELSE 10 * DecimalValue(SubSeq(digits, 1, Len(digits) - 1))
         + DigitValue(digits[Len(digits)])

\* u32::MAX in decimal
U32Max == <<"4", "2", "9", "4", "9", "6", "7", "2", "9", "5">>

\* digits, a nonempty string of decimal digits, denotes a number up to u32::MAX
FitsU32(digits) ==
  LET significant == TrimStartMatches(digits, "0")
  IN  \/ Len(significant) < Len(U32Max)
      \/ Len(significant) = Len(U32Max) /\ ~StrLess(U32Max, significant)

\* u32::from_str: an optional '+', then one or more decimal digits, up to u32::MAX
ParseU32(str) ==
  LET digits == IF str # <<>> /\ Head(str) = "+" THEN Tail(str) ELSE str
  IN  IF digits = <<>> \/ \E i \in 1..Len(digits) : digits[i] \notin Range(Digits)
        THEN [ok |-> FALSE, value |-> 0]
      ELSE IF ~FitsU32(digits) THEN [ok |-> FALSE, value |-> 0]
      ELSE [ok |-> TRUE, value |-> DecimalValue(digits)]

\* orig_line.strip_prefix('$').is_some()
IsReference(line) == line # <<>> /\ Head(line) = "$"

\* The places (workflow, step, token), counted from 1, that hold a reference.
References(wfs) ==
  {p \in UNION {UNION {{<<n, s, i>> : i \in 1..Len(wfs[n][s])} : s \in 1..Len(wfs[n])}
                  : n \in DOMAIN wfs} :
     IsReference(wfs[p[1]][p[2]][p[3]])}

\* The order in which the three nested loops of resolve_once visit the places.
VisitedBefore(p, q) ==
  \/ StrLess(p[1], q[1])
  \/ p[1] = q[1] /\ p[2] < q[2]
  \/ p[1] = q[1] /\ p[2] = q[2] /\ p[3] < q[3]

FirstReference(wfs) ==
  CHOOSE p \in References(wfs) : \A q \in References(wfs) \ {p} : VisitedBefore(p, q)

\* step.0.remove(i), then value's lines inserted at i, last line first
Substitute(step, i, lines) == SubSeq(step, 1, i - 1) \o lines \o SubSeq(step, i + 1, Len(step))

ResolveOk(changed, wfs) == [result |-> "Ok", changed |-> changed, workflows |-> wfs]
ResolveErr(wfs) == [result |-> "Err", changed |-> FALSE, workflows |-> wfs]
ResolvePanic(wfs) == [result |-> "panic", changed |-> FALSE, workflows |-> wfs]

\* The body of resolve_once for the first reference, at place p.
ResolveAt(wfs, p) ==
  LET line == Tail(wfs[p[1]][p[2]][p[3]])
      vname == SplitOnce(line, ".")[1]
      index == ParseU32(SplitOnce(line, ".")[2])
  IN  IF ~StrContains(line, ".") THEN ResolvePanic(wfs)
      ELSE IF ~index.ok THEN ResolveErr(wfs)
      ELSE IF vname \notin DOMAIN wfs THEN ResolveErr(wfs)
      ELSE IF index.value >= Len(wfs[vname]) THEN ResolvePanic(wfs)
      ELSE ResolveOk(TRUE,
             [wfs EXCEPT ![p[1]][p[2]] = Substitute(@, p[3], wfs[vname][index.value + 1])])

\* WorkflowFile::resolve_once
resolve_once(wfs) ==
  IF References(wfs) = {} THEN ResolveOk(FALSE, wfs)
  ELSE ResolveAt(wfs, FirstReference(wfs))

WorkflowNames == {<<"a">>, <<"b">>}

Tokens ==
  { <<"x">>,
    <<"$", "a", ".", "0">>, <<"$", "a", ".", "1">>, <<"$", "b", ".", "0">>,
    <<"$", "b">>, <<"$", "b", ".", "x">>, <<"$", "c", ".", "0">> }

RECURSIVE SumSeq(_)
SumSeq(s) == IF s = <<>> THEN 0 ELSE Head(s) + SumSeq(Tail(s))

\* The lengths of the steps of one workflow.
StepLengths == UNION {[1..k -> 0..MaxFileTokens] : k \in 0..MaxSteps}

\* The shapes of the files: workflow -> the lengths of its steps.
Layouts ==
  {l \in UNION {[names -> StepLengths] : names \in SUBSET WorkflowNames} :
     SumSeq(Flatten([i \in 1..Len(BTreeKeys(DOMAIN l)) |-> l[BTreeKeys(DOMAIN l)[i]]]))
       <= MaxFileTokens}

LayoutTokens(l) ==
  SumSeq(Flatten([i \in 1..Len(BTreeKeys(DOMAIN l)) |-> l[BTreeKeys(DOMAIN l)[i]]]))

\* The number of tokens before step s of workflow n.
TokensBefore(l, n, s) ==
  LET earlier == SelectSeq(BTreeKeys(DOMAIN l), LAMBDA o : StrLess(o, n))
  IN  SumSeq(Flatten([i \in 1..Len(earlier) |-> l[earlier[i]]]))
        + SumSeq(SubSeq(l[n], 1, s - 1))

\* The file of shape l whose tokens, read in order, are toks.
FileOf(l, toks) ==
  [n \in DOMAIN l |->
     [s \in 1..Len(l[n]) |->
        SubSeq(toks, TokensBefore(l, n, s) + 1, TokensBefore(l, n, s) + l[n][s])]]

LongestStep(wfs) ==
  LET lens == {0} \cup UNION {{Len(wfs[n][s]) : s \in 1..Len(wfs[n])} : n \in DOMAIN wfs}
  IN  CHOOSE m \in lens : \A o \in lens : o <= m

\* The next round of into_resolved would make a step longer than the model follows.
Outgrown == wfPc = "resolving" /\ LongestStep(resolve_once(wfFile).workflows) > MaxStepLen

\* from_str has parsed a file of version 1 and calls into_resolved.
WorkflowInit ==
  /\ \E l \in Layouts : \E toks \in [1..LayoutTokens(l) -> Tokens] :
       /\ wfInput = FileOf(l, toks)
       /\ wfFile = FileOf(l, toks)
  /\ wfPc = "resolving"
  /\ DagIdle
  /\ FixIdle
  /\ LintIdle
  /\ LiftIdle

\* One round of the loop of into_resolved: `while self.resolve_once()? {}`, and
\* Ok(self) after the round that changed nothing.
ResolveRound ==
  /\ wfPc = "resolving"
  /\ \E r \in {resolve_once(wfFile)} :
       /\ LongestStep(r.workflows) <= MaxStepLen
       /\ wfFile' = r.workflows
       /\ wfPc' = CASE r.result = "Err" -> "failed"
                    [] r.result = "panic" -> "panicked"
                    [] r.result = "Ok" /\ r.changed -> "resolving"
                    [] OTHER -> "returned"
  /\ UNCHANGED <<wfInput, dagVars, fixVars, lintVars, liftVars>>

WorkflowNext == ResolveRound

SpecWorkflow == WorkflowInit /\ [][WorkflowNext]_vars

\* The loop of into_resolved has no other exit: a call in progress takes its
\* next round.
SpecWorkflowFair == SpecWorkflow /\ WF_vars(WorkflowNext)

(***************************************************************************)
(* Reachability, stated without the search: the least set holding `from`   *)
(* and closed under the edge relation.                                     *)
(***************************************************************************)

RECURSIVE ReachFrom(_, _)
ReachFrom(e, S) ==
  LET T == S \cup UNION {EdgesGet(e, n) : n \in S}
  IN  IF T = S THEN S ELSE ReachFrom(e, T)

Reachable(e, a, b) == b \in ReachFrom(e, {a})

\* C7: for every graph built by add_node / add_edge and every two nodes a and b,
\* any_path(a, b) returns a path if and only if b is reachable from a by
\* following zero or more edges.
C7_AnyPathIffReachable ==
  (dagPc = "done" /\ query.kind = "any_path")
    => (result.some <=> Reachable(edges, query.from, query.to))

\* C7 witness: a finished any_path query that found a path of at least two hops.
C7_Witness ==
  /\ dagPc = "done"
  /\ query.kind = "any_path"
  /\ result.some
  /\ Len(result.path) >= 3

NoDuplicates(s) == \A i, j \in 1..Len(s) : s[i] = s[j] => i = j

\* C8: any_path and reachable_predicate terminate on every finite graph, cycles
\* and self-loops included: each node is expanded at most once, so the number of
\* loop iterations is at most the number of edges plus one, and at that point
\* at the latest the query has ended.
C8_SearchTerminates ==
  dagPc \in {"search", "done"} =>
    /\ NoDuplicates(expanded)
    /\ iters <= num_edges(edges) + 1
    /\ Len(stack) + iters <= num_edges(edges) + 1 \/ dagPc = "done"
    /\ (iters = num_edges(edges) + 1 => dagPc = "done")

\* C8 witness: a finished query on a graph with a self-loop and a longer cycle,
\* in which a node was popped again after it had been visited.
C8_Witness ==
  /\ dagPc = "done"
  /\ \E n \in DOMAIN edges : n \in edges[n]
  /\ \E n \in DOMAIN edges, m \in DOMAIN edges : n # m /\ m \in edges[n] /\ n \in edges[m]
  /\ iters > Len(expanded) + 1

(***************************************************************************)
(* The text of a feature array, and what a reader of it sees.              *)
(***************************************************************************)

\* A text without its whitespace and commas: the strings and the comments, in
\* the order in which they are written.
RECURSIVE Written(_)
Written(text) ==
  IF text = <<>> THEN <<>>
  ELSE IF IsWhitespace(Head(text)) \/ Head(text) = "," THEN Written(Tail(text))
  ELSE <<Head(text)>> \o Written(Tail(text))

\* No quote, comma or bracket of the text lies behind a # on the same line.
RECURSIVE CommentsClosed(_, _)
CommentsClosed(text, inComment) ==
  IF text = <<>> THEN TRUE
  ELSE LET c == Head(text)
       IN  IF c = "\n" THEN CommentsClosed(Tail(text), FALSE)
           ELSE IF c = "#" THEN CommentsClosed(Tail(text), TRUE)
           ELSE IF inComment /\ c \in {"\"", ",", "[", "]"} THEN FALSE
           ELSE CommentsClosed(Tail(text), inComment)

Strings(values) == [i \in 1..Len(values) |-> values[i].str]

FeatureOrNew(d, feature) == IF HasFeature(d, feature) THEN d.feats[feature] ELSE ArrayNew

\* C6: add_to_feature(feature, entry) creates the [features] table and the
\* feature when they are absent, leaves every other feature as it was, keeps
\* the existing entries in their order, each string and each comment still
\* written where it was relative to the others, and places entry as the new
\* last element behind them (only the comments after the last comma follow it),
\* so the feature has exactly one entry more.
C6_AddToFeature ==
  op.name = "add_to_feature" =>
    LET old == FeatureOrNew(pre, op.feature)
        new == FeatureOrNew(doc, op.feature)
    IN  /\ HasFeature(doc, op.feature)
        /\ DOMAIN doc.feats = DOMAIN pre.feats \cup {op.feature}
        /\ \A n \in DOMAIN pre.feats \ {op.feature} : doc.feats[n] = pre.feats[n]
        /\ Len(new.values) = Len(old.values) + 1
        /\ Strings(new.values) = Append(Strings(old.values), op.v)
        /\ Written(ValuesText(new.values))
             = Written(ValuesText(old.values)) \o Quoted(op.v)
        /\ Written(new.trailing) = Written(old.trailing)
        /\ CommentsClosed(ArrayText(old), FALSE) => CommentsClosed(ArrayText(new), FALSE)

\* C6 witness: an entry was added to a feature of two entries, one of them with
\* a comment behind it, and with a comment after the last comma, while another
\* feature exists.
C6_Witness ==
  /\ op.name = "add_to_feature"
  /\ HasFeature(pre, op.feature)
  /\ Cardinality(DOMAIN pre.feats) = 2
  /\ Len(pre.feats[op.feature].values) = 2
  /\ \E i \in 1..2 : Trim(pre.feats[op.feature].values[i].suffix) # <<>>
  /\ Trim(pre.feats[op.feature].trailing) # <<>>

\* The first entry of each group of equal strings, in order.
RECURSIVE FirstOfEachGroup(_, _)
FirstOfEachGroup(values, seen) ==
  IF values = <<>> THEN <<>>
  ELSE IF Head(values).str \in seen THEN FirstOfEachGroup(Tail(values), seen)
  ELSE <<Head(values)>> \o FirstOfEachGroup(Tail(values), seen \cup {Head(values).str})

\* C9: whenever dedub_feature succeeds, the array holds every distinct string of
\* the input exactly once, in the order of the input, and of each group of equal
\* strings it holds the first entry with its decor; nothing else changes.
C9_DedubKeepsFirst ==
  (op.name = "dedub_feature" /\ op.result = "ok") =>
    LET old == pre.feats[op.feature]
        new == doc.feats[op.feature]
    IN  /\ NoDuplicates(Strings(new.values))
        /\ Range(Strings(new.values)) = Range(Strings(old.values))
        /\ new.values = FirstOfEachGroup(old.values, {})
        /\ doc = [pre EXCEPT !.feats[op.feature].values = new.values]

\* C9 witness: a successful run removed a duplicate whose first entry carries a
\* comment, from a feature with a second string.
C9_Witness ==
  /\ op.name = "dedub_feature"
  /\ op.result = "ok"
  /\ LET old == pre.feats[op.feature].values
     IN  /\ Len(doc.feats[op.feature].values) < Len(old)
         /\ Cardinality(Range(Strings(old))) >= 2
         /\ \E i \in 1..(Len(old) - 1) :
              old[i].str = old[i + 1].str /\ Trim(old[i].prefix) # <<>>

Sorted(strs) == \A i \in 1..(Len(strs) - 1) : ~StrLess(strs[i + 1], strs[i])

\* Two strings that differ only by question marks.
DifferOnlyByMarker(s, t) == s # t /\ ReplaceWithEmpty(s, "?") = ReplaceWithEmpty(t, "?")

\* C10: dedub_feature fails with the conflict error whenever the sorted feature
\* holds two entries, at any positions, that differ only by the ? marker.
C10_ConflictAtAnyPositions ==
  LET strs == Strings(pre.feats[op.feature].values)
  IN  ( /\ op.name = "dedub_feature"
        /\ Sorted(strs)
        /\ \E i, j \in 1..Len(strs) : DifferOnlyByMarker(strs[i], strs[j]) )
        => op.result = "conflict"


(***************************************************************************)
(* Claims about lint propagate-feature                                     *)
(***************************************************************************)

\* A package is checked when the package filter is empty or lists it, and it
\* is a workspace member or packages outside the workspace are not ignored.
Checked(name) ==
  /\ cfg.filter = <<>> \/ name \in Range(cfg.filter)
  /\ name \in Range(cfg.workspace_members) \/ cfg.left_side_outside_workspace # "Ignore"

\* The sub-graph the search is restricted to, read from the whole graph: the
\* edges that leave the entry point of P, the edges between nodes of P, and
\* the edges that leave a node of D.
RestrictedTo(e, p_id, d_id) ==
  [k \in {n \in DOMAIN e : n[1] = p_id \/ n[1] = d_id} |->
     IF k[1] = d_id \/ k[2] = Entrypoint THEN e[k] ELSE {n \in e[k] : n[1] = p_id}]

\* The ignore table lists (D.name, f) under (P.name, f)
Listed(p_name, d_name, f) ==
  \E i \in 1..Len(cfg.ignore_missing_propagate) :
    cfg.ignore_missing_propagate[i]
      = <<DepFeature(p_name, <<>>, f), DepFeature(d_name, <<>>, f)>>

\* C1: after the detection for a feature f, for every checked package P and
\* every dependency declaration of P of a kind that is not ignored which
\* resolves to a package D, where P and D both declare f: propagate-missing is
\* recorded for (P, D) exactly when there is no edge (P.id, f) -> (D.id, f),
\* (D.id, f) is not reachable from (P.id, #entrypoint) in the restricted
\* sub-graph, and the ignore table does not list (D.name, f) under (P.name, f).
C1_PropagateMissingIff ==
  detected # NoDetection =>
    \A name \in Range(cfg.packages) :
      LET P == Package(cfg, meta, name)
          f == detected.feature
      IN  Checked(name) =>
            \A i \in 1..Len(P.dependencies) :
              LET D == resolve_dep(cfg, P, P.dependencies[i])
                  target == <<PkgId(D.pkg), f>>
              IN  (/\ cfg.dep_kinds[P.dependencies[i].kind] # "Ignore"
                   /\ D.some
                   /\ f \in DOMAIN P.features
                   /\ f \in DOMAIN meta[D.pkg])
                    => (<<name, D.pkg>> \in detected.propagate_missing
                          <=> /\ target \notin EdgesGet(edges, <<P.id, f>>)
                              /\ ~Reachable(RestrictedTo(edges, P.id, PkgId(D.pkg)),
                                            <<P.id, Entrypoint>>, target)
                              /\ ~Listed(name, D.pkg, f))

\* C1 witness: propagate-missing is recorded for (a, b) although (b, f) can be
\* reached from the entry point of a in the whole graph, through c.
C1_Witness ==
  /\ detected # NoDetection
  /\ <<PkgA, PkgB>> \in detected.propagate_missing
  /\ Reachable(edges, <<PkgId(PkgA), Entrypoint>>, <<PkgId(PkgB), detected.feature>>)

\* Whether the fix of a propagate-missing diagnostic was asked for and allowed:
\* --fix, the manifest of P in the write scope, P not excluded by
\* --fix-package, D not excluded by --fix-dependency.
FixAllowed(d) ==
  /\ cfg.fix
  /\ CanModify(cfg, cfg.manifest_path[d.pkg])
  /\ MapOrTrueEq(cfg.fix_package, d.pkg)
  /\ MapOrTrueEq(cfg.fix_dependency, RenamedPackageName(d.dep))

\* C2: a propagate-missing diagnostic on (P, f, D) of a first run whose fix
\* was asked for and allowed is followed by no diagnostic on (P, f, D) in the
\* second run, which loads the manifests the first run left and rebuilds the
\* graph from them.
C2_NoDiagnosticAfterFix ==
  \A d1 \in reported :
    (d1.run = 1 /\ d1.kind = "propagate_missing" /\ FixAllowed(d1)) =>
      \A d2 \in reported :
        ~(d2.run = 2 /\ d2.pkg = d1.pkg /\ d2.feature = d1.feature
          /\ d2.dep.pkg = d1.dep.pkg)

\* C2 witness: the second run has finished the feature of a diagnostic of the
\* first run whose fix was allowed.
C2_Witness ==
  /\ runNo = 2
  /\ detected # NoDetection
  /\ \E d1 \in reported :
       /\ d1.run = 1 /\ d1.kind = "propagate_missing" /\ FixAllowed(d1)
       /\ d1.feature = detected.feature

\* A reported diagnostic is unfixed when the manifest of P, as the run leaves
\* it, still lacks the feature (feature-missing) or an entry of the feature
\* that passes it to D (propagate-missing).
Unfixed(d) ==
  IF d.kind = "feature_missing"
  THEN ~HasFeature(disk[d.pkg], d.feature)
  ELSE \/ ~HasFeature(disk[d.pkg], d.feature)
       \/ \A i \in 1..Len(disk[d.pkg].feats[d.feature].values) :
            disk[d.pkg].feats[d.feature].values[i].str
              \notin {DepFeature(RenamedPackageName(d.dep), opt, d.feature) :
                        opt \in {<<>>, <<"?">>}}

\* C3: a run that has ended and has reported a diagnostic that is still
\* unfixed has ended with the configured error code.
C3_ExitsWithErrorCode ==
  (lintPc \in {"returned", "exited"} /\ \E d \in reported : d.run = runNo /\ Unfixed(d))
    => exitCode = error_code(cfg)


\* base is a prefix of path, by whole components
Under(path, base) ==
  Len(base) <= Len(path) /\ \A i \in 1..Len(base) : path[i] = base[i]

\* C4: every manifest that propagate-feature, format features, the no-std
\* lint or lift-to-workspace has written was written by a run with --fix, and
\* its canonical path is under the canonical workspace root, or, for the two
\* commands that have --modify-paths, under one of the paths given there.
C4_WritesInScope ==
  \A w \in written :
    /\ cfg.fix
    /\ \/ Under(canonicalize(w.path), canonicalize(cfg.workspace_root))
       \/ /\ w.cmd \in {"propagate-feature", "format"}
          /\ \E i \in 1..Len(cfg.modify_paths) :
               Under(canonicalize(w.path), cfg.modify_paths[i])

\* C4 witness: propagate-feature has written a manifest outside the workspace
\* root that --modify-paths allows, and another command has written as well.
C4_Witness ==
  /\ \E w \in written :
       /\ w.cmd = "propagate-feature"
       /\ ~Under(canonicalize(w.path), canonicalize(cfg.workspace_root))
  /\ \E w \in written : w.cmd # "propagate-feature"


(***************************************************************************)
(* Further claims about the manifest editor                                *)
(***************************************************************************)

\* The decoration of a value holds a comment
HasComment(value) == "#" \in Range(value.prefix) \/ "#" \in Range(value.suffix)

\* C11: dedub_feature fails whenever two consecutive entries have the same
\* string and one of the two, the one that would be kept or the one that
\* would be dropped, carries a comment in its prefix or suffix.
C11_CommentOnEitherDuplicateFails ==
  LET values == pre.feats[op.feature].values
  IN  (/\ op.name = "dedub_feature"
       /\ \E i \in 1..(Len(values) - 1) :
            /\ values[i].str = values[i + 1].str
            /\ HasComment(values[i]) \/ HasComment(values[i + 1]))
        => op.result # "ok"


\* The entries of values with the string str, in their order
EntriesOf(values, str) == SelectSeq(values, LAMBDA value : value.str = str)

\* C12: sort_feature leaves the entries in non-decreasing order of their
\* strings; every entry keeps its decoration and the entries with equal strings
\* keep their relative order (so the multiset of decorated entries is the
\* same); nothing else of the document changes; sorting again changes nothing.
C12_SortFeature ==
  op.name = "sort_feature" =>
    LET old == pre.feats[op.feature]
        new == doc.feats[op.feature]
    IN  /\ Sorted(Strings(new.values))
        /\ Len(new.values) = Len(old.values)
        /\ \A str \in Range(Strings(old.values)) \cup Range(Strings(new.values)) :
             EntriesOf(new.values, str) = EntriesOf(old.values, str)
        /\ doc = [pre EXCEPT !.feats[op.feature].values = new.values]
        /\ sort_feature(new) = new

\* C12 witness: a feature was sorted that was out of order and held two
\* entries with the same string and different decorations.
C12_Witness ==
  /\ op.name = "sort_feature"
  /\ doc # pre
  /\ \E i, j \in 1..Len(pre.feats[op.feature].values) :
       /\ i < j
       /\ pre.feats[op.feature].values[i].str = pre.feats[op.feature].values[j].str
       /\ pre.feats[op.feature].values[i] # pre.feats[op.feature].values[j]


\* C13: canonicalize_feature with the mode canonicalize alone, applied again
\* with the same line width to the array it has just formatted, succeeds and
\* leaves the text of the array as it is, in the one-line layout and in the
\* multi-line layout.
C13_CanonicalizeIdempotent ==
  (/\ op.name = "canonicalize_feature"
   /\ op.modes = {"canonicalize"}
   /\ op.result = "ok")
    => LET again == canonicalize_feature(op.feature, op.modes, op.line_width,
                                         doc.feats[op.feature])
       IN  /\ again.result = "ok"
           /\ ArrayText(again.feature) = ArrayText(doc.feats[op.feature])


\* C14: whatever entries a feature holds, adding an entry to it twice with
\* add_to_feature and then calling dedub_feature on it succeeds and leaves
\* exactly one occurrence of the entry.
C14_AddTwiceThenDedub ==
  \A feature \in FeatureNames, v \in AddedEntries :
    LET added == add_to_feature(add_to_feature(doc, feature, v), feature, v)
        r == dedub_feature(added.feats[feature])
    IN  /\ r.result = "ok"
        /\ Len(EntriesOf(r.feature.values, v)) = 1


(***************************************************************************)
(* Claims about the dependency tables                                      *)
(***************************************************************************)

\* The entry the last lift_dependency was called on: an inline table.
LiftedInline ==
  /\ op.name = "lift_dependency"
  /\ op.kind \in DOMAIN pre.tables
  /\ op.dname \in DOMAIN pre.tables[op.kind]
  /\ pre.tables[op.kind][op.dname].form = "inline"

FoundKey ==
  IF op.maybe_rename.some /\ op.maybe_rename.val \in DOMAIN pre.ws_deps
  THEN op.maybe_rename.val
  ELSE op.dep_name

\* The last operation was add_workspace_dep on a manifest that held an inline
\* table for the dependency, under its name or under the alias with
\* package = name.
AddedToExisting ==
  /\ op.name = "add_workspace_dep"
  /\ pre.workspace
  /\ FoundKey \in DOMAIN pre.ws_deps
  /\ pre.ws_deps[FoundKey].form = "inline"
  /\ FoundKey # op.dep_name =>
       /\ "package" \in DOMAIN pre.ws_deps[FoundKey].keys
       /\ pre.ws_deps[FoundKey].keys["package"] = op.dep_name

\* C18: when [workspace.dependencies] holds an entry for the dependency whose
\* version differs from the one added, whose path differs from the one added
\* (any path, when a registry dependency is added), or whose default-features
\* setting (enabled when the key is absent) differs from the one added,
\* add_workspace_dep fails and leaves the manifest as it was; otherwise it
\* succeeds, and a second call with the same arguments changes nothing.
C18_AddWorkspaceDepChecksEntry ==
  AddedToExisting =>
    LET found == pre.ws_deps[FoundKey].keys
        mismatch ==
          \/ /\ "version" \in DOMAIN found
             /\ remove_carrot(found["version"]) # remove_carrot(op.dep_version)
          \/ /\ "path" \in DOMAIN found
             /\ op.local.some => sanitize_path(found["path"]) # sanitize_path(op.local.val)
          \/ (IF "default-features" \in DOMAIN found THEN found["default-features"] ELSE TRUE)
               # op.default_feats
        again == add_workspace_dep_inner(doc, op.dep_name, op.maybe_rename, op.dep_version,
                                         op.default_feats, op.local)
    IN  IF mismatch
        THEN op.result # "ok" /\ doc = pre
        ELSE op.result = "ok" /\ again.result = "ok" /\ again.doc = doc


(***************************************************************************)
(* Claims about lift-to-workspace                                          *)
(***************************************************************************)

\* C19: during a run no two pending editors are for the same manifest file,
\* in a workspace with a virtual root manifest and in one whose root manifest
\* is that of a package; so no file is written twice, and after the run with
\* --fix the file of every modified editor holds what that editor held.
C19_OneEditorPerFile ==
  /\ \A k1, k2 \in DOMAIN fixers : fixers[k1].path = fixers[k2].path => k1 = k2
  /\ \A i, j \in 1..Len(saves) : saves[i].path = saves[j].path => i = j
  /\ liftPc = "returned" /\ liftCfg.fix =>
       \A k \in DOMAIN fixers : modified(fixers[k]) => files[fixers[k].path] = fixers[k].doc


\* The requirements the packages declare for the dependency
Requirements(name) == {u.dep.req : u \in Range(build_version_index(liftCfg, name))}

\* C17: with the selector unambiguous and without --ignore-errors, when the
\* packages declare two or more different version requirements for a
\* dependency that is to be lifted, the run fails and writes no manifest, also
\* with --fix and also after other dependencies were processed.
C17_AmbiguousVersionWritesNothing ==
  (/\ liftCfg.version_selector = "Unambiguous"
   /\ ~liftCfg.ignore_errors
   /\ \E name \in liftCfg.dependencies : Cardinality(Requirements(name)) >= 2)
    => /\ saves = <<>>
       /\ liftPc \in {"start", "scan", "failed"}
       /\ liftPc = "scan" => todo # <<>>

\* C17 witness: a run with --fix has failed on a dependency with two
\* requirements after it had processed another dependency, whose edits are
\* pending and unwritten.
C17_Witness ==
  /\ liftCfg.version_selector = "Unambiguous"
  /\ ~liftCfg.ignore_errors
  /\ liftCfg.fix
  /\ liftPc = "failed"
  /\ Cardinality(Requirements(Head(todo))) >= 2
  /\ \E k \in DOMAIN fixers : modified(fixers[k])
  /\ saves = <<>>


\* The dependency entries of the manifest in an editor, as loaded and as
\* edited
EntriesBefore(k) ==
  IF "dependencies" \in DOMAIN fixers[k].raw.tables
  THEN fixers[k].raw.tables["dependencies"] ELSE <<>>

EntriesAfter(k) ==
  IF "dependencies" \in DOMAIN fixers[k].doc.tables
  THEN fixers[k].doc.tables["dependencies"] ELSE <<>>

\* The entries the run has lifted: the editor of a package and the key of an
\* entry that now reads workspace = true
LiftedEntries ==
  {e \in (DOMAIN fixers \ {"magic:workspace"}) \X {"env", "l", "log"} :
     /\ e[2] \in DOMAIN EntriesAfter(e[1])
     /\ EntriesAfter(e[1])[e[2]].form = "inline"
     /\ "workspace" \in DOMAIN EntriesAfter(e[1])[e[2]].keys
     /\ EntriesAfter(e[1])[e[2]] # EntriesBefore(e[1])[e[2]]}

\* The setting a crate declared before the lift, as cargo metadata reports it
DeclaredDefaultFeatures(e) ==
  DepRecord(e[2], EntriesBefore(e[1])[e[2]], "dependencies").uses_default_features

\* The default-features value of the entry in [workspace.dependencies] of
\* the pending workspace manifest
WorkspaceDefaultFeatures(key) ==
  LET entry == fixers["magic:workspace"].doc.ws_deps[key]
  IN  IF entry.form = "inline" /\ "default-features" \in DOMAIN entry.keys
      THEN entry.keys["default-features"] ELSE TRUE

\* Every modifiable crate that uses the dependency of the entry uses its
\* default features
AllModifiableUseDefaults(e) ==
  LET name == DepRecord(e[2], EntriesBefore(e[1])[e[2]], "dependencies").name
  IN  \A u \in Range(build_version_index(liftCfg, name)) :
        check_can_modify(liftCfg.workspace_root, u.pkg.manifest_path)
          => u.dep.uses_default_features

\* C15: for every entry that lift-to-workspace has lifted, the workspace
\* entry exists and enables the default features exactly if every modifiable
\* crate used them, the crate's entry keeps a default-features key only with a
\* value that differs from the workspace value, and the effective setting (the
\* crate's own key when present, else the workspace value) is the one the
\* crate declared before.
C15_LiftKeepsDefaultFeatures ==
  \A e \in LiftedEntries :
    /\ "magic:workspace" \in DOMAIN fixers
    /\ e[2] \in DOMAIN fixers["magic:workspace"].doc.ws_deps
    /\ WorkspaceDefaultFeatures(e[2]) = AllModifiableUseDefaults(e)
    /\ LET keys == EntriesAfter(e[1])[e[2]].keys
       IN  /\ "default-features" \in DOMAIN keys
                => keys["default-features"] # WorkspaceDefaultFeatures(e[2])
           /\ DeclaredDefaultFeatures(e) =
                IF "default-features" \in DOMAIN keys THEN keys["default-features"]
                ELSE WorkspaceDefaultFeatures(e[2])

\* C15 witness: a run has returned after lifting an entry that keeps its
\* own default-features key and another that takes the workspace value.
C15_Witness ==
  /\ liftPc = "returned"
  /\ \E e1, e2 \in LiftedEntries :
       /\ "default-features" \in DOMAIN EntriesAfter(e1[1])[e1[2]].keys
       /\ "default-features" \notin DOMAIN EntriesAfter(e2[1])[e2[2]].keys
       /\ ~DeclaredDefaultFeatures(e2)


(***************************************************************************)
(* Claims about build_feature_dag                                          *)
(***************************************************************************)

\* C20: once the DAG is built it has, for every package P, every dependency
\* record D of P and every feature f listed on D, the edge
\* (P.id, default) -> (D.name, f), whether or not D uses the default features
\* and whether or not D resolves.
C20_ExplicitFeatureEdges ==
  lintPc # "start" =>
    \A p \in Range(cfg.packages) :
      \A i \in 1..Len(cfg.dependencies[p]) :
        \A f \in Range(cfg.dependencies[p][i].features) :
          adjacent(edges, <<PkgId(p), Default>>, <<cfg.dependencies[p][i].name, f>>)

\* The same for the dependencies that resolve or do not use the default
\* features
ExplicitFeatureEdgesWhenNotSkipped ==
  lintPc # "start" =>
    \A p \in Range(cfg.packages) :
      \A i \in 1..Len(cfg.dependencies[p]) :
        LET dep == cfg.dependencies[p][i]
        IN  (~dep.uses_default_features \/ resolve_dep(cfg, Package(cfg, meta, p), dep).some)
              => \A f \in Range(dep.features) :
                   adjacent(edges, <<PkgId(p), Default>>, <<dep.name, f>>)


\* The ids of the packages of the metadata
PackageIds == {PkgId(p) : p \in Range(cfg.packages)}

\* C21: in the graph of build_feature_dag every edge starts at a node of a
\* package of the metadata, so a node that carries the name of a dependency
\* that does not resolve has no outgoing edge.
C21_EdgesStartAtPackages ==
  lintPc # "start" =>
    /\ \A k \in DOMAIN edges : edges[k] # {} => k[1] \in PackageIds
    /\ \A n \in DagNodes(edges) : n[1] \notin PackageIds => EdgesGet(edges, n) = {}

\* C21 witness: the graph is built and has a node with the name of b and a
\* feature other than default, made for a dependency of a that does not
\* resolve.
C21_Witness ==
  /\ lintPc # "start"
  /\ ~resolve_dep(cfg, Package(cfg, meta, PkgA), cfg.dependencies[PkgA][1]).some
  /\ \E n \in DagNodes(edges) : n[1] = PkgB /\ n[2] # Default /\ EdgesGet(edges, n) = {}


(***************************************************************************)
(* Claims about the reporting commands                                     *)
(***************************************************************************)

\* Some node with the precondition on the left-hand side of the graph
\* reaches a node with the feature that stays disabled
ImplicationExists ==
  \E n \in DOMAIN edges :
    /\ n[2] = cfg.precondition
    /\ \E t \in ReachFrom(edges, {n}) : t[2] = cfg.stays_disabled

\* C22: whenever some node (P, precondition) of the feature graph reaches a
\* node with the stays-disabled feature, never-implies prints a path from a
\* node with the precondition to a node with that feature, every node as
\* package-name/feature, and exits with code 0; it never panics.
C22_NeverImpliesPrintsPath ==
  (lintPc # "start" /\ cfg.cmd = "never-implies" /\ ImplicationExists) =>
    /\ lintPc = "exited"
    /\ exitCode = 0
    /\ \E r \in reported :
         /\ r.path # <<>>
         /\ \E p \in Range(cfg.packages) :
              r.path[1] = p \o <<"/">> \o cfg.precondition
         /\ \E p \in Range(cfg.packages) :
              r.path[Len(r.path)] = p \o <<"/">> \o cfg.stays_disabled

\* The text of the claim on never-enables: the crate declares the
\* precondition and its list has one of the tokens given in optionals for
\* a dependency that resolves, or the feature itself
EnablesToken(p, optionals) ==
  /\ cfg.precondition \in DOMAIN meta[p]
  /\ LET enabled == Range(meta[p][cfg.precondition])
         deps == cfg.dependencies[p]
     IN  \/ cfg.stays_disabled \in enabled
         \/ \E i \in 1..Len(deps) :
              /\ resolve_dep(cfg, Package(cfg, meta, p), deps[i]).some
              /\ \E opt \in optionals :
                   DepFeature(UnwrapOr(deps[i].rename, deps[i].name), opt, cfg.stays_disabled)
                     \in enabled

\* C23: never-enables reports a package P exactly when P declares the
\* precondition and its list holds the feature post, or dep/post, or
\* dep?/post, for a dependency dep of P that resolves.
C23_NeverEnablesReports ==
  (lintPc # "start" /\ cfg.cmd = "never-enables") =>
    \A p \in Range(cfg.packages) :
      (\E r \in reported : r.pkg = p) <=> EnablesToken(p, {<<>>, <<"?">>})

\* The same without the token dep?/post
NeverEnablesReportsPlainTokens ==
  (lintPc # "start" /\ cfg.cmd = "never-enables") =>
    \A p \in Range(cfg.packages) :
      (\E r \in reported : r.pkg = p) <=> EnablesToken(p, {<<>>})

\* C25: duplicate-deps reports, for every workspace package, every crate
\* that is declared both in [dependencies] and in [dev-dependencies],
\* whatever the other fields of the two declarations are, and exits with
\* code 1 exactly when it reported one.
C25_DuplicateDepsReportsAll ==
  (lintPc # "start" /\ cfg.cmd = "duplicate-deps") =>
    /\ \A p \in Range(WorkspacePackages(cfg)) :
         \A i, j \in 1..Len(cfg.dependencies[p]) :
           (/\ cfg.dependencies[p][i].kind = "Normal"
            /\ cfg.dependencies[p][j].kind = "Development"
            /\ cfg.dependencies[p][i].name = cfg.dependencies[p][j].name)
             => \E r \in reported : r.pkg = p /\ r.dep = cfg.dependencies[p][i].name
    /\ exitCode = 1 <=> reported # {}


(***************************************************************************)
(* Claims about the no-std lint                                            *)
(***************************************************************************)

\* The pairs (P, i) of the claim in the configuration c: P and its i-th
\* dependency both support no-std, the dependency is normal, resolves and is
\* declared with the default features
NoStdPairs(c, nostd) ==
  {pair \in UNION {{<<lhs, i>> : i \in 1..Len(c.dependencies[lhs])} :
                     lhs \in Range(WorkspacePackages(c))} :
     LET dep == c.dependencies[pair[1]][pair[2]]
     IN  /\ pair[1] \in nostd
         /\ dep.kind = "Normal"
         /\ resolve_dep_from_workspace(c, dep).some
         /\ resolve_dep_from_workspace(c, dep).pkg \in nostd
         /\ dep.uses_default_features}

\* C26: a run of the no-std default-features lint returns success exactly
\* when no pair remains unfixed: it found none, or --fix was given and every
\* pair it found is fixed and its manifest saved.
C26_NoStdSuccessIffNothingUnfixed ==
  [][\A nostd \in SUBSET Range(cfg.packages) :
       DefaultFeaturesDisabled(nostd) =>
         (lintPc' = "returned" <=>
            \/ NoStdPairs(cfg, nostd) = {}
            \/ /\ cfg.fix
               /\ NoStdPairs(cfg', nostd) = {}
               /\ \A pair \in NoStdPairs(cfg, nostd) :
                    \E w \in written' : w.cmd = "no-std" /\ w.run = runNo'
                                          /\ w.path = cfg.manifest_path[pair[1]])]_vars

\* The same for the runs with --fix
NoStdSuccessWithFix ==
  [][\A nostd \in SUBSET Range(cfg.packages) :
       (cfg.fix /\ DefaultFeaturesDisabled(nostd)) =>
         (lintPc' = "returned" <=>
            /\ NoStdPairs(cfg', nostd) = {}
            /\ \A pair \in NoStdPairs(cfg, nostd) :
                 \E w \in written' : w.cmd = "no-std" /\ w.run = runNo'
                                       /\ w.path = cfg.manifest_path[pair[1]])]_vars


(***************************************************************************)
(* Claims about the order and the number of the checks of propagate-feature *)
(***************************************************************************)

\* (package name, feature) of a diagnostic comes before that of another
DiagnosticLess(d1, d2) ==
  \/ StrLess(d1.pkg, d2.pkg)
  \/ d1.pkg = d2.pkg /\ StrLess(d1.feature, d2.feature)

\* C24: within one propagate-feature run the diagnostics are emitted in
\* the order of (package name, feature): a diagnostic that a step emits does
\* not come before one that an earlier step of the same run emitted.
C24_DiagnosticsInPackageOrder ==
  [][\A new \in reported' \ reported :
       \A old \in reported :
         old.run = new.run => ~DiagnosticLess(new, old)]_vars


\* C28: a propagate-feature run checks every feature given in --features,
\* whatever the outcome of the features checked before: when the run has
\* ended, no listed feature is left unchecked.
C28_EveryFeatureChecked ==
  lintPc \in {"returned", "exited"} => pending = <<>>

\* The same for the runs in which no check left an error unfixed
EveryFeatureCheckedUnlessExit ==
  lintPc = "returned" => pending = <<>>


(***************************************************************************)
(* Claims about the graph and the paths of a Dag                           *)
(***************************************************************************)

\* Repeating a call of add_node or add_edge that was made leaves the graph
\* as it is
RepeatedCallsChangeNothing ==
  \A a \in DOMAIN edges :
    /\ add_node(edges, a) = edges
    /\ \A b \in edges[a] : add_edge(edges, a, b) = edges

\* The source of every edge is on the left-hand side
SourcesOnLhs ==
  \A a \in DOMAIN edges : edges[a] # {} => lhs_contains(edges, a)

\* C27: after any sequence of add_node and add_edge calls, repeating one of
\* the calls leaves the graph unchanged, lhs_contains is true for the source
\* and for the target of every edge, and num_nodes counts both.
C27_EndpointsOnLhs ==
  /\ RepeatedCallsChangeNothing
  /\ SourcesOnLhs
  /\ \A a \in DOMAIN edges : \A b \in edges[a] : lhs_contains(edges, b)
  /\ num_nodes(edges) = Cardinality(DagNodes(edges))


\* C30: every path that any_path or reachable_predicate returns starts at
\* from, follows an edge of the graph between each two consecutive nodes,
\* holds no node twice and ends at the target; for reachable_predicate the
\* last node is the only one of the path that satisfies the predicate.
C30_ReturnedPathsAreSimple ==
  (dagPc = "done" /\ result.some) =>
    LET path == result.path
    IN  /\ path # <<>>
        /\ path[1] = query.from
        /\ \A i \in 1..(Len(path) - 1) : path[i + 1] \in EdgesGet(edges, path[i])
        /\ NoDuplicates(path)
        /\ query.kind = "any_path" => path[Len(path)] = query.to
        /\ path[Len(path)] \in query.pred
        /\ \A i \in 1..(Len(path) - 1) : path[i] \notin query.pred

\* C30 witness: reachable_predicate has returned a path of two hops on a
\* graph in which the last node of the path leads back to the first.
C30_Witness ==
  /\ dagPc = "done"
  /\ query.kind = "reachable_predicate"
  /\ result.some
  /\ Len(result.path) = 3
  /\ result.path[1] \in EdgesGet(edges, result.path[3])

(***************************************************************************)
(* Claims about the resolution of workflow files                           *)
(***************************************************************************)

\* into_resolved has come to an end: Ok, Err, or a panic.
ResolveEnded == wfPc \in {"returned", "failed", "panicked"}

\* C29: resolving the $name.index references of a workflow file always
\* terminates, also when workflows reference themselves or each other: every
\* call of into_resolved comes to an end (here a panic counts as an end too),
\* unless a step outgrows the length up to which the model follows it.
C29_ResolveTerminates == <>(ResolveEnded \/ Outgrown)

\* The part of C29 about the file that is returned: no token of it starts
\* with '$'.
ReturnedFileIsResolved == wfPc = "returned" => References(wfFile) = {}

\* A file on which a round of into_resolved changes nothing and asks for
\* another round.
RoundChangesNothing ==
  /\ wfPc = "resolving"
  /\ resolve_once(wfFile).result = "Ok"
  /\ resolve_once(wfFile).changed
  /\ resolve_once(wfFile).workflows = wfFile

\* Two workflows that reference each other.
MutualReferences ==
  /\ DOMAIN wfInput = WorkflowNames
  /\ wfInput[<<"a">>] = << <<<<"$", "b", ".", "0">>>> >>
  /\ wfInput[<<"b">>] = << <<<<"$", "a", ".", "0">>>> >>

====
